---- MODULE Spec2Model ----
(***************************************************************************)
(* AFL Edge prediction engine (src/predictor.js).                          *)
(*                                                                         *)
(* The file holds two engine variants: the 2026 engine (lines 1-199,       *)
(* suffix V2 here) and the Champion Data engine (lines 201-544, suffix V1  *)
(* here).  Both are pure functions; each specification below draws the     *)
(* inputs of one entry point from bounded sets in Init and applies the     *)
(* entry point in one action.                                              *)
(*                                                                         *)
(* Numbers.  A JavaScript number is modelled as an exact rational <<n, d>> *)
(* in lowest terms with d > 0; NaN is <<0, 0>>.  toFixed and Math.round    *)
(* are modelled by the rounding they perform (half away from zero, half    *)
(* up), so a value such as 56.25 is a tie exactly as it is for the IEEE    *)
(* double 56.25.  An absent property (undefined) is an absent record field.*)
(***************************************************************************)
EXTENDS Integers, Sequences, FiniteSets, TLC

VARIABLES
    pc,           \* "ready" before the call, "done" after it returned
    engine,       \* which entry point acted: "none", "v1", "v2", "player"
    form,         \* input of calcFormScore
    formScore,    \* its result
    homeTeam,     \* inputs of predictMatch
    awayTeam,
    prediction,   \* result of predictMatch
    player,       \* inputs of predictPlayerStat
    opponent,
    statCode,
    propPrediction, \* result of predictPlayerStat
    args,         \* arguments of a factor scorer or classifier called on its own
    result,       \* its results
    tips,         \* the Squiggle tips of the round (input of /api/predict)
    matchStats,   \* per player and stat, the values of the completed matches
    engineCalls,  \* the histories the player-props loop called the engine with
    propPredictions, \* the array the player-props loop pushes to
    playerProps,  \* the playerProps of the player-props response
    completedByYear, \* per year, what squiggle.getCompleted gives the handler
    allMatches,   \* the flattened fixture of the Champion Data routes
    h2hStats,     \* the h2hWins and h2hPlayed a route gives the two teams
    request,      \* what a predict route meets: its matchId and its data
    response,     \* the responses a predict route has sent
    cache,        \* the response cache of an API client, by URL
    now,          \* Date.now(), in seconds
    inflight,     \* the upstream requests without a response yet
    upstream,     \* the number of upstream requests issued
    settled       \* the latest call that resolved or rejected

\* the state of the scorers called on their own
scorerVars == <<args, result>>

\* the state of the HTTP handlers
handlerVars == <<tips, matchStats, engineCalls, propPredictions, playerProps>>

\* the state of the prediction routes
routeVars == <<completedByYear, allMatches, h2hStats, request, response>>

\* the state of an API client
cacheVars == <<cache, now, inflight, upstream, settled>>

vars == <<pc, engine, form, formScore, homeTeam, awayTeam, prediction,
          player, opponent, statCode, propPrediction, scorerVars, handlerVars,
          routeVars, cacheVars>>

\* no scorer was called on its own
NoScorer == args = <<>> /\ result = <<>>

\* no handler is running
NoHandler ==
    /\ tips = <<>>
    /\ matchStats = <<>>
    /\ engineCalls = <<>>
    /\ propPredictions = <<>>
    /\ playerProps = <<>>

\* no prediction route is running
NoRoute ==
    /\ completedByYear = <<>>
    /\ allMatches = <<>>
    /\ h2hStats = <<>>
    /\ request = <<>>
    /\ response = <<>>

\* no API client is in use
NoCache ==
    /\ cache = <<>>
    /\ now = 0
    /\ inflight = {}
    /\ upstream = 0
    /\ settled = <<>>

---------------------------------------------------------------------------
(* Exact arithmetic on JavaScript numbers *)

Abs(a) == IF a < 0 THEN -a ELSE a

RECURSIVE GCD(_, _)
GCD(a, b) == IF b = 0 THEN a ELSE GCD(b, a % b)

NaN == <<0, 0>>

IsNaN(x) == x[2] = 0

\* the rational n/d in lowest terms, d # 0
Q(n, d) ==
    LET g == GCD(Abs(n), Abs(d))
        s == IF d < 0 THEN -1 ELSE 1
    IN  <<s * (n \div g), s * (d \div g)>>

Num(i) == <<i, 1>>

\* a decimal literal with one digit after the point, given in tenths
Dec1(tenths) == Q(tenths, 10)

\* a decimal literal with two digits after the point, given in hundredths
Dec2(hundredths) == Q(hundredths, 100)

Add(x, y) ==
    IF IsNaN(x) \/ IsNaN(y) THEN NaN
    ELSE LET g == GCD(x[2], y[2])
         IN  Q(x[1] * (y[2] \div g) + y[1] * (x[2] \div g), (x[2] \div g) * y[2])

Neg(x) == IF IsNaN(x) THEN NaN ELSE <<-x[1], x[2]>>

Sub(x, y) == Add(x, Neg(y))

Mul(x, y) ==
    IF IsNaN(x) \/ IsNaN(y) THEN NaN
    ELSE LET g1 == GCD(Abs(x[1]), y[2])
             g2 == GCD(Abs(y[1]), x[2])
         IN  Q((x[1] \div g1) * (y[1] \div g2), (x[2] \div g2) * (y[2] \div g1))

\* x / y; 0/0 is NaN (no quotient with a zero divisor and a non-zero
\* dividend is evaluated by the engine on the inputs drawn here)
Div(x, y) ==
    IF IsNaN(x) \/ IsNaN(y) \/ y[1] = 0 THEN NaN
    ELSE Mul(x, Q(y[2], y[1]))

\* comparisons: every comparison with NaN is false
Lt(x, y) == ~IsNaN(x) /\ ~IsNaN(y) /\ x[1] * y[2] < y[1] * x[2]
Le(x, y) == ~IsNaN(x) /\ ~IsNaN(y) /\ x[1] * y[2] <= y[1] * x[2]
Gt(x, y) == Lt(y, x)
Ge(x, y) == Le(y, x)

\* Math.max / Math.min: NaN if either argument is NaN
MathMax(x, y) == IF IsNaN(x) \/ IsNaN(y) THEN NaN ELSE IF Lt(x, y) THEN y ELSE x
MathMin(x, y) == IF IsNaN(x) \/ IsNaN(y) THEN NaN ELSE IF Lt(y, x) THEN y ELSE x

\* the integer nearest to n/d for n >= 0 and d > 0, ties upwards
RoundHalfUp(n, d) == (n \div d) + (IF 2 * (n % d) >= d THEN 1 ELSE 0)

\* Math.round: the nearest integer, ties towards +infinity
MathRound(x) ==
    IF IsNaN(x) THEN NaN
    ELSE Num((x[1] \div x[2]) + (IF 2 * (x[1] % x[2]) >= x[2] THEN 1 ELSE 0))

\* parseFloat(x.toFixed(1)): the nearest tenth, ties away from zero
ToFixed1(x) ==
    IF IsNaN(x) THEN NaN
    ELSE LET a == Abs(x[1])
             m == 10 * (a \div x[2]) + RoundHalfUp(10 * (a % x[2]), x[2])
         IN  Q(IF x[1] < 0 THEN -m ELSE m, 10)

\* JavaScript truthiness of a number
Truthy(x) == ~IsNaN(x) /\ x[1] # 0

\* t.k where the property may be absent
Has(t, k) == k \in DOMAIN t

\* (t.k || dflt) for a numeric property
OrDefault(t, k, dflt) == IF Has(t, k) /\ Truthy(t[k]) THEN t[k] ELSE dflt

\* t.k for a numeric property.  An absent property reads as undefined, which
\* behaves as NaN in every context the engine uses it in (arithmetic,
\* comparison, truthiness), so it is read as NaN.
NumOf(t, k) == IF Has(t, k) THEN t[k] ELSE NaN

---------------------------------------------------------------------------
(* Recency-weighted form score *)

\* calcFormScore of the 2026 engine: weights length, length-1, ..., 1.
\* The loop of lines 173-178, run from index i (1-based) with the
\* accumulators score and weight.
RECURSIVE FormLoopV2(_, _, _, _)
FormLoopV2(f, i, score, weight) ==
    IF i > Len(f) THEN <<score, weight>>
    ELSE LET w == Num(Len(f) - (i - 1))
         IN  FormLoopV2(f, i + 1,
                 IF f[i] = "W" THEN Add(score, w)
                 ELSE IF f[i] = "D" THEN Add(score, Mul(w, Dec1(5)))
                 ELSE score,
                 Add(weight, w))

calcFormScoreV2(f) ==
    IF Len(f) = 0 THEN Dec1(5)
    ELSE LET r == FormLoopV2(f, 1, Num(0), Num(0))
         IN  IF Gt(r[2], Num(0)) THEN Div(r[1], r[2]) ELSE Dec1(5)

\* recencyWeights[i] || 0.05 (i is 0-based in the source, 1-based here)
recencyWeights == <<Dec2(35), Dec2(25), Dec2(20), Dec2(12), Dec2(8)>>

RecencyWeight(i) == IF i <= Len(recencyWeights) THEN recencyWeights[i] ELSE Dec2(5)

\* calcFormScore of the Champion Data engine: the forEach of lines 239-243
RECURSIVE FormLoopV1(_, _, _, _)
FormLoopV1(f, i, score, totalWeight) ==
    IF i > Len(f) THEN <<score, totalWeight>>
    ELSE LET w == RecencyWeight(i)
             r == IF f[i] = "W" THEN Num(1)
                  ELSE IF f[i] = "D" THEN Dec1(5) ELSE Num(0)
         IN  FormLoopV1(f, i + 1, Add(score, Mul(r, w)), Add(totalWeight, w))

\* mutant: the empty form is not answered with 0.5
calcFormScoreV1NoEmptyCheck(f) ==
    LET r == FormLoopV1(f, 1, Num(0), Num(0))
    IN  Div(r[1], r[2])

calcFormScoreV1(f) ==
    IF Len(f) = 0 THEN Dec1(5)
    ELSE LET r == FormLoopV1(f, 1, Num(0), Num(0))
         IN  Div(r[1], r[2])

\* calcFormScore(team.form) where the property may be absent: !form
FormScoreOfV1(t) == IF Has(t, "form") THEN calcFormScoreV1(t.form) ELSE Dec1(5)

\* calcFormScore(team.form || [])
FormScoreOfV2(t) == calcFormScoreV2(IF Has(t, "form") THEN t.form ELSE <<>>)

---------------------------------------------------------------------------
(* Champion Data engine (V1): factor scorers *)

WEIGHTS_V1 ==
    [recentForm       |-> Dec2(30),
     headToHead       |-> Dec2(20),
     avgScoreDiff     |-> Dec2(20),
     venueRecord      |-> Dec2(15),
     clearanceDiff    |-> Dec2(10),
     interstateTravel |-> Dec2(5)]

\* mutant: the venue row is built before the scoring-margin row
FactorKeysV1VenueFirst ==
    <<"recentForm", "headToHead", "venueRecord", "avgScoreDiff",
      "clearanceDiff", "interstateTravel">>

\* Object.entries(WEIGHTS) order
FactorKeysV1 == <<"recentForm", "headToHead", "avgScoreDiff", "venueRecord",
                  "clearanceDiff", "interstateTravel">>

\* mutant: the guard on a zero total is left out
calcH2HScoreUnguarded(wins, total) == Div(wins, total)

\* !total holds for undefined, 0 and NaN
calcH2HScore(wins, total) ==
    IF ~Truthy(total) THEN Dec1(5) ELSE Div(wins, total)

calcVenueScore(venueWins, venuePlayed) ==
    IF ~Truthy(venuePlayed) THEN Dec1(5)
    ELSE LET confidence == MathMin(Div(venuePlayed, Num(10)), Num(1))
             raw        == Div(venueWins, venuePlayed)
         IN  Add(Mul(raw, confidence), Mul(Dec1(5), Sub(Num(1), confidence)))

calcClearanceScore(diff) ==
    LET clamped == MathMax(Num(-15), MathMin(Num(15), diff))
    IN  Div(Add(clamped, Num(15)), Num(30))

calcTravelScore(homeTeamTravelling, awayTeamTravelling) ==
    IF homeTeamTravelling /\ ~awayTeamTravelling THEN Dec2(35)
    ELSE IF ~homeTeamTravelling /\ awayTeamTravelling THEN Dec2(65)
    ELSE Dec1(5)

\* mutant: the clamp to [min, max] is left out
normaliseStatUnclamped(value, min, max) ==
    Div(Sub(value, min), Sub(max, min))

normaliseStat(value, min, max) ==
    Div(Sub(MathMax(min, MathMin(max, value)), min), Sub(max, min))

\* t.travellingInterstate as a condition (absent is falsy)
Travelling(t) == Has(t, "travellingInterstate") /\ t.travellingInterstate

predictScore(homeAvgScore, awayAvgScore, homeAvgConceded, awayAvgConceded, homeWinProb) ==
    LET homeBase0  == Div(Add(homeAvgScore, awayAvgConceded), Num(2))
        awayBase0  == Div(Add(awayAvgScore, homeAvgConceded), Num(2))
        leanFactor == Mul(Sub(homeWinProb, Dec1(5)), Num(20))
        homeBase   == Add(homeBase0, leanFactor)
        awayBase   == Sub(awayBase0, leanFactor)
    IN  [home |-> MathRound(MathMax(Num(40), homeBase)),
         away |-> MathRound(MathMax(Num(40), awayBase))]

\* mutant: the probability of the home side is classified, not the dominant one
getConfidenceTierHomeSide(probability) ==
    IF Ge(probability, Dec2(72)) THEN [label |-> "HIGH CONF", color |-> "green"]
    ELSE IF Ge(probability, Dec2(60)) THEN [label |-> "MED CONF", color |-> "yellow"]
    ELSE [label |-> "LOW CONF", color |-> "red"]

getConfidenceTier(probability) ==
    LET p == MathMax(probability, Sub(Num(1), probability))
    IN  IF Ge(p, Dec2(72)) THEN [label |-> "HIGH CONF", color |-> "green"]
        ELSE IF Ge(p, Dec2(60)) THEN [label |-> "MED CONF", color |-> "yellow"]
        ELSE [label |-> "LOW CONF", color |-> "red"]

\* the scores object of lines 356-381
ScoresV1(homeTeam_, awayTeam_) ==
    [recentForm |->
        [home |-> FormScoreOfV1(homeTeam_), away |-> FormScoreOfV1(awayTeam_)],
     headToHead |->
        [home |-> calcH2HScore(NumOf(homeTeam_, "h2hWins"), NumOf(homeTeam_, "h2hPlayed")),
         away |-> calcH2HScore(NumOf(awayTeam_, "h2hWins"), NumOf(awayTeam_, "h2hPlayed"))],
     avgScoreDiff |->
        [home |-> normaliseStat(Sub(NumOf(homeTeam_, "avgScore"),
                                    NumOf(homeTeam_, "avgConceded")), Num(-40), Num(40)),
         away |-> normaliseStat(Sub(NumOf(awayTeam_, "avgScore"),
                                    NumOf(awayTeam_, "avgConceded")), Num(-40), Num(40))],
     venueRecord |->
        [home |-> calcVenueScore(NumOf(homeTeam_, "venueWins"), NumOf(homeTeam_, "venuePlayed")),
         away |-> calcVenueScore(NumOf(awayTeam_, "venueWins"), NumOf(awayTeam_, "venuePlayed"))],
     clearanceDiff |->
        [home |-> calcClearanceScore(Sub(NumOf(homeTeam_, "avgClearances"),
                                         NumOf(awayTeam_, "avgClearances"))),
         away |-> calcClearanceScore(Sub(NumOf(awayTeam_, "avgClearances"),
                                         NumOf(homeTeam_, "avgClearances")))],
     interstateTravel |->
        [home |-> calcTravelScore(Travelling(homeTeam_), Travelling(awayTeam_)),
         away |-> calcTravelScore(Travelling(awayTeam_), Travelling(homeTeam_))]]

\* advantage of one row of buildKeyFactors
AdvantageV1(homeTeam_, awayTeam_, s) ==
    IF Gt(s.home, s.away) THEN homeTeam_.code ELSE awayTeam_.code

FactorNamesV1 ==
    [recentForm       |-> "Recent Form (Last 5)",
     headToHead       |-> "Head to Head Record",
     avgScoreDiff     |-> "Scoring Margin",
     venueRecord      |-> "Venue Record",
     clearanceDiff    |-> "Clearance Differential",
     interstateTravel |-> "Interstate Travel"]

buildKeyFactors(homeTeam_, awayTeam_, scores) ==
    [i \in 1..Len(FactorKeysV1) |->
        LET key == FactorKeysV1[i]
        IN  [name      |-> FactorNamesV1[key],
             homeEdge  |-> scores[key].home,
             awayEdge  |-> scores[key].away,
             weight    |-> WEIGHTS_V1[key],
             advantage |-> AdvantageV1(homeTeam_, awayTeam_, scores[key])]]

\* the loop of lines 387-390 for one side ("home" or "away"), from entry i
RECURSIVE WeightedSumV1(_, _, _, _)
WeightedSumV1(scores, side, i, acc) ==
    IF i > Len(FactorKeysV1) THEN acc
    ELSE WeightedSumV1(scores, side, i + 1,
             Add(acc, Mul(scores[FactorKeysV1[i]][side], WEIGHTS_V1[FactorKeysV1[i]])))

\* the two winProbability fields of lines 411 and 416
WinProbabilitiesV1(homeWinProb, awayWinProb) ==
    [home |-> ToFixed1(Mul(homeWinProb, Num(100))),
     away |-> ToFixed1(Mul(awayWinProb, Num(100)))]

\* mutant: the away composite over the total
HomeWinProbV1OfAway(scores) ==
    LET homeTotal == WeightedSumV1(scores, "home", 1, Num(0))
        awayTotal == WeightedSumV1(scores, "away", 1, Num(0))
    IN  Div(awayTotal, Add(homeTotal, awayTotal))

\* lines 383-394: the weighted composite and the home win probability
HomeWinProbV1(scores) ==
    LET homeTotal == WeightedSumV1(scores, "home", 1, Num(0))
        awayTotal == WeightedSumV1(scores, "away", 1, Num(0))
    IN  Div(homeTotal, Add(homeTotal, awayTotal))

\* lines 396-425: the predicted scores and the returned record
PredictionV1(homeTeam_, awayTeam_, venue, scores, homeWinProb, predicted) ==
    LET awayWinProb == Sub(Num(1), homeWinProb)
        wp          == WinProbabilitiesV1(homeWinProb, awayWinProb)
        margin      == Sub(predicted.home, predicted.away)
    IN  [home |-> [team |-> homeTeam_, winProbability |-> wp.home,
                   predictedScore |-> predicted.home],
         away |-> [team |-> awayTeam_, winProbability |-> wp.away,
                   predictedScore |-> predicted.away],
         venue           |-> venue,
         confidence      |-> getConfidenceTier(homeWinProb),
         keyFactors      |-> buildKeyFactors(homeTeam_, awayTeam_, scores),
         scores          |-> scores,
         predictedMargin |-> IF IsNaN(margin) THEN NaN ELSE Num(Abs(margin[1])),
         predictedWinner |-> IF Ge(homeWinProb, Dec1(5)) THEN homeTeam_.code
                             ELSE awayTeam_.code]

PredictWithScoresV1(homeTeam_, awayTeam_, venue, scores, homeWinProb) ==
    PredictionV1(homeTeam_, awayTeam_, venue, scores, homeWinProb,
                 predictScore(NumOf(homeTeam_, "avgScore"), NumOf(awayTeam_, "avgScore"),
                              NumOf(homeTeam_, "avgConceded"), NumOf(awayTeam_, "avgConceded"),
                              homeWinProb))

predictMatchV1(homeTeam_, awayTeam_, venue) ==
    LET scores == ScoresV1(homeTeam_, awayTeam_)
    IN  PredictWithScoresV1(homeTeam_, awayTeam_, venue, scores, HomeWinProbV1(scores))

---------------------------------------------------------------------------
(* 2026 engine (V2) *)

WEIGHTS_V2 ==
    [recentForm    |-> Dec2(30),
     h2h           |-> Dec2(20),
     scoringMargin |-> Dec2(20),
     venue         |-> Dec2(15),
     clearance     |-> Dec2(10),
     travel        |-> Dec2(5)]

\* a's edge over b
normalize(a, b) ==
    IF Add(a, b) = Num(0) THEN Dec1(5) ELSE Div(a, Add(a, b))

\* mutant: the clamp to [-60, 60] is left out
mapMarginUnclamped(margin) == Div(Add(margin, Num(60)), Num(120))

mapMargin(margin) ==
    LET clamped == MathMax(Num(-60), MathMin(Num(60), margin))
    IN  Div(Add(clamped, Num(60)), Num(120))

\* t.played > 0 ? t.wins / t.played : 0.5  (lines 43-46 and 69-72)
RateV2(wins, played) ==
    IF Gt(played, Num(0)) THEN Div(wins, played) ELSE Dec1(5)

\* x ? 0.42 : 0.58  (lines 95-96)
TravelPenaltyV2(t) == IF Travelling(t) THEN Dec2(42) ELSE Dec2(58)

\* one pushed factor row; a and b are the values compared for advantage
FactorRowV2(name, weight, homeEdge, awayEdge, a, b, homeStats, awayStats) ==
    [name      |-> name,
     weight    |-> weight,
     homeEdge  |-> homeEdge,
     awayEdge  |-> awayEdge,
     advantage |-> IF Ge(a, b) THEN homeStats.code ELSE awayStats.code]

\* the factors array of lines 28-104
FactorsV2(homeStats, awayStats) ==
    LET homeForm     == FormScoreOfV2(homeStats)
        awayForm     == FormScoreOfV2(awayStats)
        homeH2HRate  == RateV2(NumOf(homeStats, "h2hWins"), NumOf(homeStats, "h2hPlayed"))
        awayH2HRate  == RateV2(NumOf(awayStats, "h2hWins"), NumOf(awayStats, "h2hPlayed"))
        homeMargin   == OrDefault(homeStats, "scoringMargin", Num(0))
        awayMargin   == OrDefault(awayStats, "scoringMargin", Num(0))
        homeVenueRate == RateV2(NumOf(homeStats, "venueWins"), NumOf(homeStats, "venuePlayed"))
        awayVenueRate == RateV2(NumOf(awayStats, "venueWins"), NumOf(awayStats, "venuePlayed"))
        homeClear    == OrDefault(homeStats, "avgClearances", Num(34))
        awayClear    == OrDefault(awayStats, "avgClearances", Num(34))
        homeTravelPenalty == TravelPenaltyV2(homeStats)
        awayTravelPenalty == TravelPenaltyV2(awayStats)
    IN  << FactorRowV2("Recent Form", WEIGHTS_V2.recentForm,
                normalize(homeForm, awayForm), normalize(awayForm, homeForm),
                homeForm, awayForm, homeStats, awayStats),
           FactorRowV2("Head to Head", WEIGHTS_V2.h2h,
                normalize(homeH2HRate, awayH2HRate), normalize(awayH2HRate, homeH2HRate),
                homeH2HRate, awayH2HRate, homeStats, awayStats),
           FactorRowV2("Avg Score Diff", WEIGHTS_V2.scoringMargin,
                normalize(mapMargin(homeMargin), mapMargin(awayMargin)),
                normalize(mapMargin(awayMargin), mapMargin(homeMargin)),
                homeMargin, awayMargin, homeStats, awayStats),
           FactorRowV2("Venue Record", WEIGHTS_V2.venue,
                normalize(homeVenueRate, awayVenueRate), normalize(awayVenueRate, homeVenueRate),
                homeVenueRate, awayVenueRate, homeStats, awayStats),
           FactorRowV2("Clearance Diff", WEIGHTS_V2.clearance,
                normalize(homeClear, awayClear), normalize(awayClear, homeClear),
                homeClear, awayClear, homeStats, awayStats),
           FactorRowV2("Interstate Travel", WEIGHTS_V2.travel,
                homeTravelPenalty, awayTravelPenalty,
                homeTravelPenalty, awayTravelPenalty, homeStats, awayStats) >>

\* the loop of lines 109-112 for one edge ("homeEdge" or "awayEdge"), from row i
RECURSIVE WeightedSumV2(_, _, _, _)
WeightedSumV2(factors, edge, i, acc) ==
    IF i > Len(factors) THEN acc
    ELSE WeightedSumV2(factors, edge, i + 1,
             Add(acc, Mul(factors[i][edge], factors[i].weight)))

\* lines 115-117: normalise to 100%
WinProbabilitiesV2(homeSum, awaySum) ==
    LET total    == Add(homeSum, awaySum)
        homeProb == ToFixed1(Mul(Div(homeSum, total), Num(100)))
        awayProb == ToFixed1(Sub(Num(100), homeProb))
    IN  [home |-> homeProb, away |-> awayProb]

\* lines 120-133: predicted scores
PredictedScoresV2(homeStats, awayStats, homeProb, awayProb) ==
    LET homeAvg      == OrDefault(homeStats, "avgScore", Num(80))
        awayAvg      == OrDefault(awayStats, "avgScore", Num(80))
        homeConceded == OrDefault(homeStats, "avgConceded", Num(80))
        awayConceded == OrDefault(awayStats, "avgConceded", Num(80))
        homeBlend    == MathRound(Add(Mul(homeAvg, Dec1(6)), Mul(awayConceded, Dec1(4))))
        awayBlend    == MathRound(Add(Mul(awayAvg, Dec1(6)), Mul(homeConceded, Dec1(4))))
        probRatio    == Div(homeProb, Num(50))
    IN  [home |-> MathRound(Mul(homeBlend, Add(Dec2(85), Mul(probRatio, Dec2(15))))),
         away |-> MathRound(Mul(awayBlend,
                           Add(Dec2(85), Mul(Div(awayProb, Num(50)), Dec2(15)))))]

\* lines 138-143
ConfidenceV2(homeProb, awayProb) ==
    LET maxProb == MathMax(homeProb, awayProb)
    IN  IF Ge(maxProb, Num(70))
            THEN [level |-> "high", label |-> "HIGH CONF", color |-> "green"]
        ELSE IF Ge(maxProb, Num(58))
            THEN [level |-> "medium", label |-> "MED CONF", color |-> "yellow"]
        ELSE [level |-> "low", label |-> "LOW CONF", color |-> "red"]

\* lines 135-160: the margin, the winner and the returned record
PredictionV2(homeStats, awayStats, venue, factors, wp, ps) ==
    LET margin == Sub(ps.home, ps.away)
    IN  [home |-> [team |-> homeStats, winProbability |-> wp.home,
                   predictedScore |-> ps.home],
         away |-> [team |-> awayStats, winProbability |-> wp.away,
                   predictedScore |-> ps.away],
         predictedWinner |-> IF Ge(wp.home, wp.away) THEN homeStats.code
                             ELSE awayStats.code,
         predictedMargin |-> IF IsNaN(margin) THEN NaN ELSE Num(Abs(margin[1])),
         confidence      |-> ConfidenceV2(wp.home, wp.away),
         keyFactors      |-> factors]

PredictWithFactorsV2(homeStats, awayStats, venue, factors, wp) ==
    PredictionV2(homeStats, awayStats, venue, factors, wp,
                 PredictedScoresV2(homeStats, awayStats, wp.home, wp.away))

predictMatchV2(homeStats, awayStats, venue) ==
    LET factors == FactorsV2(homeStats, awayStats)
    IN  PredictWithFactorsV2(homeStats, awayStats, venue, factors,
            WinProbabilitiesV2(WeightedSumV2(factors, "homeEdge", 1, Num(0)),
                               WeightedSumV2(factors, "awayEdge", 1, Num(0))))

---------------------------------------------------------------------------
(* Player prop predictor (Champion Data engine) *)

\* the absent result of predictPlayerStat
Null == [kind |-> "null"]

\* arr.slice(0, n)
Slice(arr, n) == SubSeq(arr, 1, IF Len(arr) < n THEN Len(arr) ELSE n)

\* arr.reduce((a, b) => a + b, 0)
RECURSIVE SumSeq(_, _, _)
SumSeq(arr, i, acc) ==
    IF i > Len(arr) THEN acc ELSE SumSeq(arr, i + 1, Add(acc, arr[i]))

\* player.statHistory?.[statCode] || []
HistoryOf(player_, statCode_) ==
    IF Has(player_, "statHistory") /\ Has(player_.statHistory, statCode_)
    THEN player_.statHistory[statCode_] ELSE <<>>

\* weights[i] || 0.05 over history.slice(0, 5): lines 442-452
RECURSIVE WeightedLoop(_, _, _, _)
WeightedLoop(window, i, weightedSum, totalW) ==
    IF i > Len(window) THEN <<weightedSum, totalW>>
    ELSE LET w == RecencyWeight(i)
         IN  WeightedLoop(window, i + 1, Add(weightedSum, Mul(window[i], w)),
                          Add(totalW, w))

WeightedAvg(history) ==
    LET r == WeightedLoop(Slice(history, 5), 1, Num(0), Num(0))
    IN  Div(r[1], r[2])

SeasonAvg(history) == Div(SumSeq(history, 1, Num(0)), Num(Len(history)))

\* opponent.avgStatConceded?.[statCode] ? that / 25 : 1.0
DefAdj(opponent_, statCode_) ==
    IF Has(opponent_, "avgStatConceded")
       /\ Has(opponent_.avgStatConceded, statCode_)
       /\ Truthy(opponent_.avgStatConceded[statCode_])
    THEN Div(opponent_.avgStatConceded[statCode_], Num(25))
    ELSE Num(1)

\* line 460, before rounding
Predicted(history, opponent_, statCode_) ==
    Mul(WeightedAvg(history), Add(Dec2(85), Mul(DefAdj(opponent_, statCode_), Dec2(15))))

\* arr.reduce((sum, v) => sum + Math.pow(v - mean, 2), 0)
RECURSIVE SumSqDev(_, _, _, _)
SumSqDev(arr, mean, i, acc) ==
    IF i > Len(arr) THEN acc
    ELSE SumSqDev(arr, mean, i + 1,
                  Add(acc, Mul(Sub(arr[i], mean), Sub(arr[i], mean))))

\* mutant: the sample variance (division by n - 1) instead of the population
\* variance
stdDevSquaredSample(arr) ==
    IF Len(arr) < 2 THEN Num(0)
    ELSE LET mean == Div(SumSeq(arr, 1, Num(0)), Num(Len(arr)))
         IN  Div(SumSqDev(arr, mean, 1, Num(0)), Num(Len(arr) - 1))

\* stdDev without its final Math.sqrt: the square of what stdDev returns.
\* The only use of the result is the comparison with 4 and 8, which is
\* made on the squares (16 and 64) in Confidence below.
stdDevSquared(arr) ==
    IF Len(arr) < 2 THEN Num(0)
    ELSE LET mean == Div(SumSeq(arr, 1, Num(0)), Num(Len(arr)))
         IN  Div(SumSqDev(arr, mean, 1, Num(0)), Num(Len(arr)))

\* variability < 4 ? 'HIGH' : variability < 8 ? 'MED' : 'LOW'
PlayerConfidence(window) ==
    LET variabilitySquared == stdDevSquared(window)
    IN  IF Lt(variabilitySquared, Num(16)) THEN "HIGH"
        ELSE IF Lt(variabilitySquared, Num(64)) THEN "MED" ELSE "LOW"

\* mutant: the comparison made with the seasonAvg of the record, which is
\* rounded to one decimal
TrendDirectionRounded(history) ==
    IF Gt(history[1], ToFixed1(SeasonAvg(history))) THEN "up"
    ELSE IF Lt(history[1], ToFixed1(SeasonAvg(history))) THEN "down" ELSE "flat"

\* line 474
TrendDirection(history) ==
    IF Gt(history[1], SeasonAvg(history)) THEN "up"
    ELSE IF Lt(history[1], SeasonAvg(history)) THEN "down" ELSE "flat"

\* the record returned at lines 465-475
PredictionRecord(player_, opponent_, statCode_, history) ==
    [kind           |-> "prediction",
     player         |-> player_.fullname,
     code           |-> player_.code,
     statCode       |-> statCode_,
     predicted      |-> ToFixed1(Predicted(history, opponent_, statCode_)),
     weightedAvg    |-> ToFixed1(WeightedAvg(history)),
     seasonAvg      |-> ToFixed1(SeasonAvg(history)),
     confidence     |-> PlayerConfidence(Slice(history, 5)),
     last5          |-> Slice(history, 5),
     trendDirection |-> TrendDirection(history)]

\* mutant: opponent.avgStatConceded[statCode] without the optional chaining,
\* which raises a TypeError for an opponent without avgStatConceded
predictPlayerStatUnguarded(player_, opponent_, statCode_) ==
    LET history == HistoryOf(player_, statCode_)
    IN  IF Len(history) = 0 THEN Null
        ELSE IF ~Has(opponent_, "avgStatConceded") THEN [kind |-> "raised"]
        ELSE PredictionRecord(player_, opponent_, statCode_, history)

predictPlayerStat(player_, opponent_, statCode_) ==
    LET history == HistoryOf(player_, statCode_)
    IN  IF Len(history) = 0 THEN Null
        ELSE PredictionRecord(player_, opponent_, statCode_, history)

---------------------------------------------------------------------------
(* Inputs *)

\* longest form sequence given to calcFormScore on its own
MaxFormLen == 10
\* longest form sequence of a team record given to predictMatch
MaxTeamFormLen == 2
\* most head-to-head meetings of a team record
MaxH2HPlayed == 3
\* most venue games of a team record (beyond the full-confidence sample of 10)
MaxVenuePlayed == 11

Results == {"W", "L", "D"}

Forms(n) == UNION {[1..k -> Results] : k \in 0..n}

\* the record t without the properties ks
Without(t, ks) == [k \in DOMAIN t \ ks |-> t[k]]

\* points per game, in tenths
ScoreTenths == {200, 400, 800, 962, 1300}
\* clearances per game, in tenths
ClearanceTenths == {0, 200, 340, 384, 500}

BaseTeam ==
    [code |-> "TEAM", name |-> "Team",
     form |-> <<"W", "L">>,
     h2hWins |-> Num(1), h2hPlayed |-> Num(2),
     venueWins |-> Num(1), venuePlayed |-> Num(2),
     avgScore |-> Num(80), avgConceded |-> Num(80),
     avgClearances |-> Num(34),
     scoringMargin |-> Num(0),
     travellingInterstate |-> FALSE]

\* Team records: the base record with the inputs of one factor ranging over
\* the data model (wins <= played, non-negative averages, scoringMargin =
\* avgScore - avgConceded) or absent.
TeamInputs ==
    {[BaseTeam EXCEPT !.form = f] : f \in Forms(MaxTeamFormLen)}
    \cup {Without(BaseTeam, {"form"})}
    \cup {[BaseTeam EXCEPT !.h2hWins = Num(w[1]), !.h2hPlayed = Num(w[2])] :
            w \in {x \in (0..MaxH2HPlayed) \X (0..MaxH2HPlayed) : x[1] <= x[2]}}
    \cup {Without(BaseTeam, {"h2hWins", "h2hPlayed"})}
    \cup {[BaseTeam EXCEPT !.venueWins = Num(w[1]), !.venuePlayed = Num(w[2])] :
            w \in {x \in (0..MaxVenuePlayed) \X (0..MaxVenuePlayed) : x[1] <= x[2]}}
    \cup {Without(BaseTeam, {"venueWins", "venuePlayed"})}
    \cup {[BaseTeam EXCEPT !.avgScore = Dec1(sc[1]), !.avgConceded = Dec1(sc[2]),
                           !.scoringMargin = Dec1(sc[1] - sc[2])] :
            sc \in ScoreTenths \X ScoreTenths}
    \cup {Without(BaseTeam, {"avgScore", "avgConceded", "scoringMargin"})}
    \cup {[BaseTeam EXCEPT !.avgClearances = Dec1(c)] : c \in ClearanceTenths}
    \cup {Without(BaseTeam, {"avgClearances"})}
    \cup {[BaseTeam EXCEPT !.travellingInterstate = b] : b \in BOOLEAN}

\* t with an identity
Named(t, code, name) == [k \in DOMAIN t |-> IF k = "code" THEN code
                                            ELSE IF k = "name" THEN name ELSE t[k]]

Venue == [id |-> 1, name |-> "MCG", code |-> "MCG"]

NoTeam == [code |-> "NONE"]
NoPrediction == [kind |-> "none"]

---------------------------------------------------------------------------
(* Specification of predictMatch: the inputs are drawn, one engine is called *)

InitMatch ==
    /\ pc = "ready"
    /\ engine = "none"
    /\ homeTeam \in {Named(t, "HOM", "Home") : t \in TeamInputs}
    /\ awayTeam \in {Named(t, "AWY", "Away") : t \in TeamInputs}
    /\ prediction = NoPrediction
    /\ form = <<>>
    /\ formScore = NaN
    /\ player = NoTeam
    /\ opponent = NoTeam
    /\ statCode = "NONE"
    /\ propPrediction = NoPrediction
    /\ NoScorer
    /\ NoHandler
    /\ NoRoute
    /\ NoCache

CallPredictMatchV1 ==
    /\ pc = "ready"
    /\ prediction' = predictMatchV1(homeTeam, awayTeam, Venue)
    /\ engine' = "v1"
    /\ pc' = "done"
    /\ UNCHANGED <<form, formScore, homeTeam, awayTeam, player, opponent,
                   statCode, propPrediction, scorerVars, handlerVars,
                   routeVars, cacheVars>>

CallPredictMatchV2 ==
    /\ pc = "ready"
    /\ prediction' = predictMatchV2(homeTeam, awayTeam, Venue)
    /\ engine' = "v2"
    /\ pc' = "done"
    /\ UNCHANGED <<form, formScore, homeTeam, awayTeam, player, opponent,
                   statCode, propPrediction, scorerVars, handlerVars,
                   routeVars, cacheVars>>

NextMatch == CallPredictMatchV1 \/ CallPredictMatchV2

SpecMatch == InitMatch /\ [][NextMatch]_vars

---------------------------------------------------------------------------
(* Specification of calcFormScore: a form is drawn, one variant is called *)

InitForm ==
    /\ pc = "ready"
    /\ engine = "none"
    /\ form \in Forms(MaxFormLen)
    /\ formScore = NaN
    /\ homeTeam = NoTeam
    /\ awayTeam = NoTeam
    /\ prediction = NoPrediction
    /\ player = NoTeam
    /\ opponent = NoTeam
    /\ statCode = "NONE"
    /\ propPrediction = NoPrediction
    /\ NoScorer
    /\ NoHandler
    /\ NoRoute
    /\ NoCache

CallCalcFormScoreV1 ==
    /\ pc = "ready"
    /\ formScore' = calcFormScoreV1(form)
    /\ engine' = "v1"
    /\ pc' = "done"
    /\ UNCHANGED <<form, homeTeam, awayTeam, prediction, player, opponent,
                   statCode, propPrediction, scorerVars, handlerVars,
                   routeVars, cacheVars>>

CallCalcFormScoreV2 ==
    /\ pc = "ready"
    /\ formScore' = calcFormScoreV2(form)
    /\ engine' = "v2"
    /\ pc' = "done"
    /\ UNCHANGED <<form, homeTeam, awayTeam, prediction, player, opponent,
                   statCode, propPrediction, scorerVars, handlerVars,
                   routeVars, cacheVars>>

NextForm == CallCalcFormScoreV1 \/ CallCalcFormScoreV2

SpecForm == InitForm /\ [][NextForm]_vars

---------------------------------------------------------------------------
(* Specification of predictPlayerStat *)

\* longest stat history of a player
MaxHistLen == 6

\* observations of one stat
StatValues == {Num(0), Num(10), Num(20)}

\* opponent "average conceded" figures for the stat
ConcededValues == {Num(0), Num(20), Num(25), Num(50), Num(100)}

StatCodes == {"DISPOSAL", "GOAL"}

Histories(n) == UNION {[1..k -> StatValues] : k \in 0..n}

\* games of a home-and-away season
SeasonGames == 23

\* the history of a full season of n games in which the player made the same
\* count in every game but one, where he made one more
SeasonHistories(n) ==
    {[i \in 1..n |-> IF i = j THEN Add(b, Num(1)) ELSE b] :
        j \in 1..n, b \in StatValues}

BasePlayer == [personId |-> 7, fullname |-> "Player", code |-> "PLY", squadCode |-> "HOM"]

\* { ...player, statHistory: { DISPOSAL: history } }, or no statHistory at all
PlayerInputs ==
    {[k \in DOMAIN BasePlayer \cup {"statHistory"} |->
        IF k = "statHistory" THEN [DISPOSAL |-> h] ELSE BasePlayer[k]] :
            h \in Histories(MaxHistLen) \cup SeasonHistories(SeasonGames)}
    \cup {BasePlayer}

\* {} as the callers pass it, a squad without the stat, a squad with it
OpponentInputs ==
    {[id |-> 2], [id |-> 2, avgStatConceded |-> [GOAL |-> Num(2)]]}
    \cup {[id |-> 2, avgStatConceded |-> [DISPOSAL |-> c, GOAL |-> Num(2)]] :
            c \in ConcededValues}

InitPlayer ==
    /\ pc = "ready"
    /\ engine = "none"
    /\ player \in PlayerInputs
    /\ opponent \in OpponentInputs
    /\ statCode \in StatCodes
    /\ propPrediction = NoPrediction
    /\ form = <<>>
    /\ formScore = NaN
    /\ homeTeam = NoTeam
    /\ awayTeam = NoTeam
    /\ prediction = NoPrediction
    /\ NoScorer
    /\ NoHandler
    /\ NoRoute
    /\ NoCache

CallPredictPlayerStat ==
    /\ pc = "ready"
    /\ propPrediction' = predictPlayerStat(player, opponent, statCode)
    /\ engine' = "player"
    /\ pc' = "done"
    /\ UNCHANGED <<form, formScore, homeTeam, awayTeam, prediction, player,
                   opponent, statCode, scorerVars, handlerVars,
                   routeVars, cacheVars>>

NextPlayer == CallPredictPlayerStat

SpecPlayer == InitPlayer /\ [][NextPlayer]_vars

---------------------------------------------------------------------------
(* Specification of the factor scorers and the confidence classifiers:     *)
(* two numbers are drawn, one scorer is called                             *)

\* largest magnitude of an integer argument
MaxMagnitude == 72

\* integers (margins, differentials, counts, percentages) and the
\* probabilities 0, 0.02, ..., 1
ScorerInputs ==
    {Num(i) : i \in -MaxMagnitude..MaxMagnitude} \cup {Q(k, 50) : k \in 0..50}

InitScorer ==
    /\ pc = "ready"
    /\ engine = "none"
    /\ args \in ScorerInputs \X ScorerInputs
    /\ result = <<>>
    /\ form = <<>>
    /\ formScore = NaN
    /\ homeTeam = NoTeam
    /\ awayTeam = NoTeam
    /\ prediction = NoPrediction
    /\ player = NoTeam
    /\ opponent = NoTeam
    /\ statCode = "NONE"
    /\ propPrediction = NoPrediction
    /\ NoHandler
    /\ NoRoute
    /\ NoCache

\* the scorer named fn returned r
Returned(fn, r) ==
    /\ pc = "ready"
    /\ result' = r
    /\ engine' = fn
    /\ pc' = "done"
    /\ UNCHANGED <<form, formScore, homeTeam, awayTeam, prediction, player,
                   opponent, statCode, propPrediction, args, handlerVars,
                   routeVars, cacheVars>>

\* calcH2HScore(homeTeam.h2hWins, homeTeam.h2hPlayed)
CallCalcH2HScore == Returned("calcH2HScore", <<calcH2HScore(args[1], args[2])>>)

\* homeStats.h2hPlayed > 0 ? homeStats.h2hWins / homeStats.h2hPlayed : 0.5
CallRateV2 == Returned("rateV2", <<RateV2(args[1], args[2])>>)

\* mapMargin(homeMargin), mapMargin(awayMargin)
CallMapMargin == Returned("mapMargin", <<mapMargin(args[1]), mapMargin(args[2])>>)

\* normaliseStat(home margin, -40, 40), normaliseStat(away margin, -40, 40)
CallNormaliseStat ==
    Returned("normaliseStat", <<normaliseStat(args[1], Num(-40), Num(40)),
                                normaliseStat(args[2], Num(-40), Num(40))>>)

\* calcClearanceScore(diff) for two differentials
CallCalcClearanceScore ==
    Returned("calcClearanceScore", <<calcClearanceScore(args[1]),
                                     calcClearanceScore(args[2])>>)

\* getConfidenceTier(homeWinProb) for two probabilities
CallGetConfidenceTier ==
    Returned("getConfidenceTier", <<getConfidenceTier(args[1]).label,
                                    getConfidenceTier(args[2]).label>>)

\* the confidence of the 2026 engine for two home percentages, the away
\* percentage being parseFloat((100 - homeProb).toFixed(1))
CallConfidenceV2 ==
    Returned("confidenceV2",
             <<ConfidenceV2(args[1], ToFixed1(Sub(Num(100), args[1]))).label,
               ConfidenceV2(args[2], ToFixed1(Sub(Num(100), args[2]))).label>>)

NextScorer ==
    \/ CallCalcH2HScore
    \/ CallRateV2
    \/ CallMapMargin
    \/ CallNormaliseStat
    \/ CallCalcClearanceScore
    \/ CallGetConfidenceTier
    \/ CallConfidenceV2

SpecScorer == InitScorer /\ [][NextScorer]_vars

---------------------------------------------------------------------------
(* GET /api/predict (src/api/predict.js): the engine's prediction blended   *)
(* with the Squiggle aggregate tip                                          *)

\* arr.find(t => t.sourceid === id), from position i on; Null when none
RECURSIVE FindSource(_, _, _)
FindSource(arr, id, i) ==
    IF i > Len(arr) THEN Null
    ELSE IF arr[i].sourceid = id THEN arr[i] ELSE FindSource(arr, id, i + 1)

\* tips.filter(t => t.hteam === hteam && t.ateam === ateam)
RECURSIVE FilterTips(_, _, _, _)
FilterTips(tips_, hteam, ateam, i) ==
    IF i > Len(tips_) THEN <<>>
    ELSE (IF tips_[i].hteam = hteam /\ tips_[i].ateam = ateam THEN <<tips_[i]>> ELSE <<>>)
         \o FilterTips(tips_, hteam, ateam, i + 1)

getAllTipsForMatch(tips_, hteam, ateam) == FilterTips(tips_, hteam, ateam, 1)

getAggregateTip(tips_, hteam, ateam) ==
    LET matchTips == FilterTips(tips_, hteam, ateam, 1)
    IN  IF FindSource(matchTips, 8, 1) # Null THEN FindSource(matchTips, 8, 1)
        ELSE IF FindSource(matchTips, 1, 1) # Null THEN FindSource(matchTips, 1, 1)
        ELSE IF Len(matchTips) > 0 THEN matchTips[1]
        ELSE Null

\* aggregateTip?.hconfidence || null
SquiggleHomeProb(aggregateTip) ==
    IF aggregateTip # Null /\ Has(aggregateTip, "hconfidence")
       /\ Truthy(aggregateTip.hconfidence)
    THEN aggregateTip.hconfidence ELSE Null

\* allModelTips.reduce((s, t) => s + (t.hconfidence || 50), 0)
RECURSIVE SumConfidence(_, _, _)
SumConfidence(allModelTips, i, acc) ==
    IF i > Len(allModelTips) THEN acc
    ELSE SumConfidence(allModelTips, i + 1,
                       Add(acc, OrDefault(allModelTips[i], "hconfidence", Num(50))))

ModelConsensus(allModelTips) ==
    IF Len(allModelTips) > 0
    THEN MathRound(Div(SumConfidence(allModelTips, 1, Num(0)), Num(Len(allModelTips))))
    ELSE Null

\* lines 104-110: 70% engine, 30% Squiggle aggregate
FinalHomeProb(engineHomeProb, squiggleHomeProb) ==
    IF squiggleHomeProb # Null
    THEN ToFixed1(Add(Mul(engineHomeProb, Dec2(70)), Mul(squiggleHomeProb, Dec2(30))))
    ELSE engineHomeProb

\* lines 118-127
LineAssessment(winner, margin) ==
    [predictedWinner |-> winner,
     predictedMargin |-> margin,
     recommendation  |-> IF Gt(margin, Num(25)) THEN "strong lean"
                         ELSE IF Gt(margin, Num(12)) THEN "moderate lean"
                         ELSE "close game"]

\* lines 112-127: the prediction with the blended probabilities
BlendedPrediction(p, homeStats, awayStats, finalHomeProb) ==
    LET finalAwayProb == ToFixed1(Sub(Num(100), finalHomeProb))
        winner        == IF Ge(finalHomeProb, Num(50)) THEN homeStats.code
                         ELSE awayStats.code
    IN  [k \in DOMAIN p \cup {"lineAssessment"} |->
            IF k = "home" THEN [p.home EXCEPT !.winProbability = finalHomeProb]
            ELSE IF k = "away" THEN [p.away EXCEPT !.winProbability = finalAwayProb]
            ELSE IF k = "predictedWinner" THEN winner
            ELSE IF k = "lineAssessment" THEN LineAssessment(winner, p.predictedMargin)
            ELSE p[k]]

\* the response body of lines 129-148 for the engine's prediction p
PredictResponse(p, homeStats, awayStats, aggregateTip, allModelTips) ==
    [prediction |-> BlendedPrediction(p, homeStats, awayStats,
                        FinalHomeProb(p.home.winProbability, SquiggleHomeProb(aggregateTip))),
     squiggle   |-> [aggregateHomeWinPct      |-> SquiggleHomeProb(aggregateTip),
                     modelConsensusHomeWinPct |-> ModelConsensus(allModelTips),
                     modelCount               |-> Len(allModelTips)]]

\* longest list of tips of the round
MaxTips == 2

\* hconfidence of a tip
ConfidenceValues == {Num(0), Num(30), Num(100)}

\* a tip of some model for this fixture or for another one of the round
TipInputs ==
    LET fixtures == {<<"Home", "Away">>, <<"Other", "Away">>}
    IN  {[hteam |-> f[1], ateam |-> f[2], sourceid |-> id, hconfidence |-> h] :
            f \in fixtures, id \in {8, 1, 3}, h \in ConfidenceValues}
        \cup {[hteam |-> f[1], ateam |-> f[2], sourceid |-> id] :
                f \in fixtures, id \in {8, 1, 3}}

TipLists(n) == UNION {[1..k -> TipInputs] : k \in 0..n}

InitPredict ==
    /\ pc = "ready"
    /\ engine = "none"
    /\ homeTeam \in {Named(t, "HOM", "Home") : t \in TeamInputs}
    /\ awayTeam = Named(BaseTeam, "AWY", "Away")
    /\ tips \in TipLists(MaxTips)
    /\ prediction = NoPrediction
    /\ form = <<>>
    /\ formScore = NaN
    /\ player = NoTeam
    /\ opponent = NoTeam
    /\ statCode = "NONE"
    /\ propPrediction = NoPrediction
    /\ NoScorer
    /\ NoRoute
    /\ NoCache
    /\ matchStats = <<>>
    /\ engineCalls = <<>>
    /\ propPredictions = <<>>
    /\ playerProps = <<>>

\* steps 5 to 7 of the handler and its response
ApiPredict ==
    /\ pc = "ready"
    /\ prediction' = PredictResponse(predictMatchV2(homeTeam, awayTeam, Venue),
                                     homeTeam, awayTeam,
                                     getAggregateTip(tips, homeTeam.name, awayTeam.name),
                                     getAllTipsForMatch(tips, homeTeam.name, awayTeam.name))
    /\ engine' = "api/predict"
    /\ pc' = "done"
    /\ UNCHANGED <<form, formScore, homeTeam, awayTeam, player, opponent,
                   statCode, propPrediction, scorerVars, handlerVars,
                   routeVars, cacheVars>>

NextPredict == ApiPredict

SpecPredict == InitPredict /\ [][NextPredict]_vars

---------------------------------------------------------------------------
(* The player-props endpoints: GET /api/matches/:matchId/players            *)
(* (src/src/server.js) and GET /api/players (src/api/compare.js)            *)

\* the null that stands for a match without the player's stat
NullStat == <<>>

\* .filter(v => v !== null)
RECURSIVE FilterNotNull(_, _)
FilterNotNull(values, i) ==
    IF i > Len(values) THEN <<>>
    ELSE (IF values[i] = NullStat THEN <<>> ELSE <<values[i]>>)
         \o FilterNotNull(values, i + 1)

\* buildPlayerStatHistory; values holds, per completed match, stat?.value ?? null
buildPlayerStatHistory(values) == Slice(FilterNotNull(values, 1), 10)

statCodes == <<"DISPOSAL", "GOAL">>

\* the (player, statCode) pairs in the order of the two nested loops
RECURSIVE LoopPairs(_, _, _)
LoopPairs(allPlayers, p, c) ==
    IF p > Len(allPlayers) THEN <<>>
    ELSE IF c > Len(statCodes) THEN LoopPairs(allPlayers, p + 1, 1)
    ELSE <<<<p, statCodes[c]>>>> \o LoopPairs(allPlayers, p, c + 1)

\* { ...player, statHistory: { [statCode]: history } }
WithStatHistory(player_, statCode_, history) ==
    [k \in DOMAIN player_ \cup {"statHistory"} |->
        IF k = "statHistory" THEN (statCode_ :> history) ELSE player_[k]]

\* { ...pred, squad: player.squadCode }
WithSquad(pred, squadCode) ==
    [k \in DOMAIN pred \cup {"squad"} |-> IF k = "squad" THEN squadCode ELSE pred[k]]

\* the opponent argument {} of the endpoints
EmptyObject == [x \in {} |-> x]

\* mutant: the engine is called for every non-empty history
HistoryNotEmpty(history) == Len(history) >= 1

\* history.length >= 3
HistoryLongEnough(history) == Len(history) >= 3

\* the body of the inner loop for one (player, statCode) pair; acc holds the
\* histories the engine was called with and the propPredictions array
PropsLoopBody(allPlayers, stats, pair, acc) ==
    LET player_ == allPlayers[pair[1]]
        history == buildPlayerStatHistory(stats[pair[1]][pair[2]])
    IN  IF HistoryLongEnough(history)
        THEN LET pred == predictPlayerStat(WithStatHistory(player_, pair[2], history),
                                           EmptyObject, pair[2])
             IN  [calls |-> Append(acc.calls, history),
                  preds |-> IF pred # Null
                            THEN Append(acc.preds, WithSquad(pred, player_.squadCode))
                            ELSE acc.preds]
        ELSE acc

RECURSIVE PropsLoop(_, _, _, _, _)
PropsLoop(allPlayers, stats, pairs, i, acc) ==
    IF i > Len(pairs) THEN acc
    ELSE PropsLoop(allPlayers, stats, pairs, i + 1,
                   PropsLoopBody(allPlayers, stats, pairs[i], acc))

\* the entries of preds with the given statCode, in push order
RECURSIVE GroupOf(_, _, _)
GroupOf(preds, code, i) ==
    IF i > Len(preds) THEN <<>>
    ELSE (IF preds[i].statCode = code THEN <<preds[i]>> ELSE <<>>)
         \o GroupOf(preds, code, i + 1)

\* x inserted into the list sorted by (a, b) => b.predicted - a.predicted,
\* behind the entries it does not precede (the sort is stable)
RECURSIVE InsertByPredicted(_, _, _)
InsertByPredicted(sorted, x, i) ==
    IF i > Len(sorted) THEN Append(sorted, x)
    ELSE IF Gt(x.predicted, sorted[i].predicted)
         THEN SubSeq(sorted, 1, i - 1) \o <<x>> \o SubSeq(sorted, i, Len(sorted))
         ELSE InsertByPredicted(sorted, x, i + 1)

RECURSIVE SortByPredicted(_, _, _)
SortByPredicted(group, i, acc) ==
    IF i > Len(group) THEN acc
    ELSE SortByPredicted(group, i + 1, InsertByPredicted(acc, group[i], 1))

\* grouped: by stat, sorted by predicted value, top 5 each
Grouped(preds) ==
    [code \in {preds[i].statCode : i \in DOMAIN preds} |->
        Slice(SortByPredicted(GroupOf(preds, code, 1), 1, <<>>), 5)]

\* the two squads' players of the match
AllPlayers ==
    <<[personId |-> 7, fullname |-> "Player Seven", code |-> "P7", squadCode |-> "HOM"],
      [personId |-> 9, fullname |-> "Player Nine", code |-> "P9", squadCode |-> "AWY"]>>

\* number of completed matches with player stats
MaxMatches == 4

\* per completed match, the player's value of one stat or null
MatchValues(values) == [1..MaxMatches -> values \cup {NullStat}]

\* per player and stat, the values of the completed matches
MatchStatsInputs ==
    {<<[DISPOSAL |-> d7, GOAL |-> g7], [DISPOSAL |-> d9, GOAL |-> [i \in 1..MaxMatches |-> NullStat]]>> :
        d7 \in MatchValues({Num(10), Num(20)}),
        g7 \in {[i \in 1..MaxMatches |-> NullStat], [i \in 1..MaxMatches |-> Num(i)]},
        d9 \in MatchValues({Num(15)})}

InitProps ==
    /\ pc = "ready"
    /\ engine = "none"
    /\ matchStats \in MatchStatsInputs
    /\ engineCalls = <<>>
    /\ propPredictions = <<>>
    /\ playerProps = <<>>
    /\ tips = <<>>
    /\ form = <<>>
    /\ formScore = NaN
    /\ homeTeam = NoTeam
    /\ awayTeam = NoTeam
    /\ prediction = NoPrediction
    /\ player = NoTeam
    /\ opponent = NoTeam
    /\ statCode = "NONE"
    /\ propPrediction = NoPrediction
    /\ NoScorer
    /\ NoRoute
    /\ NoCache

\* the loop over allPlayers.slice(0, 30) and statCodes, the grouping and the
\* response of the endpoint named route
PlayerPropsHandler(route) ==
    /\ pc = "ready"
    /\ LET allPlayers == Slice(AllPlayers, 30)
           done == PropsLoop(allPlayers, matchStats, LoopPairs(allPlayers, 1, 1), 1,
                             [calls |-> <<>>, preds |-> <<>>])
       IN  /\ engineCalls' = done.calls
           /\ propPredictions' = done.preds
           /\ playerProps' = Grouped(done.preds)
    /\ engine' = route
    /\ pc' = "done"
    /\ UNCHANGED <<form, formScore, homeTeam, awayTeam, prediction, player,
                   opponent, statCode, propPrediction, scorerVars, tips, matchStats,
                   routeVars, cacheVars>>

\* GET /api/matches/:matchId/players of the Champion Data server
ServerMatchPlayers == PlayerPropsHandler("server/players")

\* GET /api/players of the serverless API
ApiPlayers == PlayerPropsHandler("api/players")

NextProps == ServerMatchPlayers \/ ApiPlayers

SpecProps == InitProps /\ [][NextProps]_vars

---------------------------------------------------------------------------
(* Head to head of the Squiggle-backed /api/predict (src/api/predict.js,   *)
(* step 3) with calcH2H of the Squiggle client                              *)

\* arr.slice(-n)
SliceLast(arr, n) ==
    IF Len(arr) <= n THEN arr ELSE SubSeq(arr, Len(arr) - n + 1, Len(arr))

\* arr.filter(keep), from position i on
RECURSIVE FilterSeq(_, _, _)
FilterSeq(arr, keep(_), i) ==
    IF i > Len(arr) THEN <<>>
    ELSE (IF keep(arr[i]) THEN <<arr[i]>> ELSE <<>>) \o FilterSeq(arr, keep, i + 1)

\* the games of calcH2H's first two filters
IsMeeting(g, teamName, opponentName) ==
    /\ \/ g.hteam = teamName /\ g.ateam = opponentName
       \/ g.ateam = teamName /\ g.hteam = opponentName
    /\ g.complete = 100

\* the filter of wins; the scores are numbers, for which (x || 0) is x
IsWinOf(g, teamName) ==
    IF g.hteam = teamName THEN g.hscore > g.ascore ELSE g.ascore > g.hscore

calcH2H(teamName, opponentName, allGames) ==
    LET IsH2H(g) == IsMeeting(g, teamName, opponentName)
        IsWin(g) == IsWinOf(g, teamName)
        h2h      == FilterSeq(allGames, IsH2H, 1)
    IN  [wins |-> Len(FilterSeq(h2h, IsWin, 1)), played |-> Len(h2h)]

\* the loop for (y = year; y >= year - 3; y--): byYear[1] is what
\* getCompleted gave for year, byYear[4] for year - 3; a year whose call
\* rejected is skipped
RECURSIVE H2HGamesLoop(_, _, _)
H2HGamesLoop(byYear, i, h2hGames) ==
    IF i > 4 THEN h2hGames
    ELSE H2HGamesLoop(byYear, i + 1,
             IF byYear[i].ok THEN h2hGames \o byYear[i].games ELSE h2hGames)

\* h2hGames = h2hGames.slice(-10)
H2HGames(byYear) == SliceLast(H2HGamesLoop(byYear, 1, <<>>), 10)

\* lines 67-73: the four figures written to homeStats and awayStats
H2HStats(hteam, ateam, h2hGames) ==
    LET homeH2H == calcH2H(hteam, ateam, h2hGames)
        awayH2H == calcH2H(ateam, hteam, h2hGames)
    IN  [home |-> [h2hWins |-> homeH2H.wins, h2hPlayed |-> homeH2H.played],
         away |-> [h2hWins |-> awayH2H.wins, h2hPlayed |-> awayH2H.played]]

\* most completed games of one year
MaxYearGames == 3

\* a completed game: the home team beat the away team at home, the away
\* team beat the home team at its own ground, or two other teams played
GameInputs ==
    {[hteam |-> "Home", ateam |-> "Away", hscore |-> 100, ascore |-> 80, complete |-> 100],
     [hteam |-> "Away", ateam |-> "Home", hscore |-> 90, ascore |-> 70, complete |-> 100],
     [hteam |-> "Third", ateam |-> "Fourth", hscore |-> 85, ascore |-> 60, complete |-> 100]}

\* the completed games of a year in fixture order, with at most one meeting
\* of the two teams, or the rejection of the call
YearInputs ==
    {[ok |-> FALSE, games |-> <<>>]}
    \cup {[ok |-> TRUE, games |-> l] :
            l \in {x \in UNION {[1..k -> GameInputs] : k \in 0..MaxYearGames} :
                     Cardinality({i \in DOMAIN x : IsMeeting(x[i], "Home", "Away")}) <= 1}}

InitH2H ==
    /\ pc = "ready"
    /\ engine = "none"
    /\ completedByYear \in [1..4 -> YearInputs]
    /\ allMatches = <<>>
    /\ h2hStats = <<>>
    /\ request = <<>>
    /\ response = <<>>
    /\ form = <<>>
    /\ formScore = NaN
    /\ homeTeam = NoTeam
    /\ awayTeam = NoTeam
    /\ prediction = NoPrediction
    /\ player = NoTeam
    /\ opponent = NoTeam
    /\ statCode = "NONE"
    /\ propPrediction = NoPrediction
    /\ NoScorer
    /\ NoHandler
    /\ NoCache

\* step 3 of the handler for match.hteam = "Home" and match.ateam = "Away"
ApiPredictHeadToHead ==
    /\ pc = "ready"
    /\ h2hStats' = H2HStats("Home", "Away", H2HGames(completedByYear))
    /\ engine' = "api/predict h2h"
    /\ pc' = "done"
    /\ UNCHANGED <<form, formScore, homeTeam, awayTeam, prediction, player,
                   opponent, statCode, propPrediction, scorerVars, handlerVars,
                   completedByYear, allMatches, request, response, cacheVars>>

NextH2H == ApiPredictHeadToHead

SpecH2H == InitH2H /\ [][NextH2H]_vars

---------------------------------------------------------------------------
(* The API clients: apiGet of the Champion Data client                     *)
(* (src/unnamed/part_001) and squiggleGet of the Squiggle client            *)
(* (src/predictor.js).  Each client has its own cache; a behaviour is the   *)
(* life of one client.  A call runs up to https.get in one step, the        *)
(* 'end' or 'error' callback of a request is another step, and the clock    *)
(* advances between steps.  Times are in seconds.                           *)

Urls == {"/seasons", "/ladder"}

\* no entry for the URL in the Map
NoEntry == [present |-> FALSE]

\* cache.set(url, { data, expiresAt })
Entry(data, expiresAt) == [present |-> TRUE, data |-> data, exp |-> expiresAt]

\* mutant: an entry never expires
getCachedForever(c, key, t) ==
    IF ~c[key].present THEN [data |-> Null, cache |-> c]
    ELSE [data |-> c[key].data, cache |-> c]

\* getCached: [data, cache], the cache without the entry it found expired
getCached(c, key, t) ==
    IF ~c[key].present THEN [data |-> Null, cache |-> c]
    ELSE IF t > c[key].exp THEN [data |-> Null, cache |-> [c EXCEPT ![key] = NoEntry]]
    ELSE [data |-> c[key].data, cache |-> c]

\* setCache
setCache(c, key, data, ttlSeconds, t) == [c EXCEPT ![key] = Entry(data, t + ttlSeconds)]

\* the latest call that settled: how is "cache", "upstream" or "rejected";
\* entry is the cache entry a cache hit was served from
Settlement(url, ttl, how, data, entry) ==
    [url |-> url, ttl |-> ttl, how |-> how, at |-> now, data |-> data, entry |-> entry]

\* a request on the wire; found is the cache entry of its URL when the call
\* was made
Request(url, ttl) ==
    [id |-> upstream + 1, url |-> url, ttl |-> ttl, sent |-> now, found |-> cache[url]]

\* what comes back: a status with a body that JSON.parse accepts or not, or
\* a network error (status 0)
ResponseInputs ==
    {[status |-> 200, json |-> TRUE], [status |-> 200, json |-> FALSE],
     [status |-> 429, json |-> TRUE], [status |-> 403, json |-> TRUE],
     [status |-> 500, json |-> TRUE], [status |-> 0, json |-> FALSE]}

\* the parsed body of the response to request r: an object, which is truthy
BodyOf(r, resp) == [from |-> r.id, status |-> resp.status]

\* most upstream requests of one behaviour
MaxRequests == 2
\* the last instant of the clock
MaxClock == 3
\* the cacheTTL / ttlSeconds arguments
TTLInputs == {0, 2}

\* apiGet up to https.get (part_001 lines 46-67)
ApiGetCall(url, cacheTTL) ==
    /\ engine = "apiGet"
    /\ LET got == getCached(cache, url, now)
       IN  IF got.data # Null
           THEN /\ settled' = Settlement(url, cacheTTL, "cache", got.data, cache[url])
                /\ cache' = got.cache
                /\ UNCHANGED <<inflight, upstream>>
           ELSE IF ~request.token
           THEN /\ settled' = Settlement(url, cacheTTL, "rejected", Null, NoEntry)
                /\ cache' = got.cache
                /\ UNCHANGED <<inflight, upstream>>
           ELSE /\ upstream < MaxRequests
                /\ inflight' = inflight \cup {Request(url, cacheTTL)}
                /\ upstream' = upstream + 1
                /\ cache' = got.cache
                /\ UNCHANGED settled
    /\ UNCHANGED <<pc, engine, form, formScore, homeTeam, awayTeam, prediction,
                   player, opponent, statCode, propPrediction, scorerVars,
                   handlerVars, routeVars, now>>

\* the 'end' and 'error' callbacks of apiGet (lines 70-91)
ApiGetRespond(r, resp) ==
    /\ engine = "apiGet"
    /\ r \in inflight
    /\ inflight' = inflight \ {r}
    /\ IF resp.status = 200 /\ resp.json
       THEN /\ cache' = IF r.ttl > 0
                        THEN setCache(cache, r.url, BodyOf(r, resp), r.ttl, now)
                        ELSE cache
            /\ settled' = Settlement(r.url, r.ttl, "upstream", BodyOf(r, resp), NoEntry)
       ELSE /\ cache' = cache
            /\ settled' = Settlement(r.url, r.ttl, "rejected", Null, NoEntry)
    /\ UNCHANGED <<pc, engine, form, formScore, homeTeam, awayTeam, prediction,
                   player, opponent, statCode, propPrediction, scorerVars,
                   handlerVars, routeVars, now, upstream>>

\* squiggleGet up to https.get (predictor.js lines 568-576)
SquiggleGetCall(url, ttlSeconds) ==
    /\ engine = "squiggleGet"
    /\ IF cache[url].present /\ now < cache[url].exp
       THEN /\ settled' = Settlement(url, ttlSeconds, "cache", cache[url].data, cache[url])
            /\ UNCHANGED <<inflight, upstream>>
       ELSE /\ upstream < MaxRequests
            /\ inflight' = inflight \cup {Request(url, ttlSeconds)}
            /\ upstream' = upstream + 1
            /\ UNCHANGED settled
    /\ UNCHANGED <<pc, engine, form, formScore, homeTeam, awayTeam, prediction,
                   player, opponent, statCode, propPrediction, scorerVars,
                   handlerVars, routeVars, now, cache>>

\* the 'end' and 'error' callbacks of squiggleGet (lines 577-591)
SquiggleGetRespond(r, resp) ==
    /\ engine = "squiggleGet"
    /\ r \in inflight
    /\ inflight' = inflight \ {r}
    /\ IF resp.status # 0 /\ resp.status # 429 /\ resp.json
       THEN /\ cache' = setCache(cache, r.url, BodyOf(r, resp), r.ttl, now)
            /\ settled' = Settlement(r.url, r.ttl, "upstream", BodyOf(r, resp), NoEntry)
       ELSE /\ cache' = cache
            /\ settled' = Settlement(r.url, r.ttl, "rejected", Null, NoEntry)
    /\ UNCHANGED <<pc, engine, form, formScore, homeTeam, awayTeam, prediction,
                   player, opponent, statCode, propPrediction, scorerVars,
                   handlerVars, routeVars, now, upstream>>

\* Date.now() moves on
Tick ==
    /\ engine \in {"apiGet", "squiggleGet"}
    /\ now < MaxClock
    /\ now' = now + 1
    /\ UNCHANGED <<pc, engine, form, formScore, homeTeam, awayTeam, prediction,
                   player, opponent, statCode, propPrediction, scorerVars,
                   handlerVars, routeVars, cache, inflight, upstream, settled>>

\* no call has settled yet
NoSettlement == [how |-> "none"]

\* a client with an empty cache; AFL_API_TOKEN is set or not
InitCache ==
    /\ pc = "ready"
    /\ \/ engine = "apiGet" /\ request \in {[token |-> b] : b \in BOOLEAN}
       \/ engine = "squiggleGet" /\ request = [token |-> FALSE]
    /\ cache = [u \in Urls |-> NoEntry]
    /\ now = 0
    /\ inflight = {}
    /\ upstream = 0
    /\ settled = NoSettlement
    /\ completedByYear = <<>>
    /\ allMatches = <<>>
    /\ h2hStats = <<>>
    /\ response = <<>>
    /\ form = <<>>
    /\ formScore = NaN
    /\ homeTeam = NoTeam
    /\ awayTeam = NoTeam
    /\ prediction = NoPrediction
    /\ player = NoTeam
    /\ opponent = NoTeam
    /\ statCode = "NONE"
    /\ propPrediction = NoPrediction
    /\ NoScorer
    /\ NoHandler

NextCache ==
    \/ \E url \in Urls, ttl \in TTLInputs : ApiGetCall(url, ttl)
    \/ \E r \in inflight, resp \in ResponseInputs : ApiGetRespond(r, resp)
    \/ \E url \in Urls, ttl \in TTLInputs : SquiggleGetCall(url, ttl)
    \/ \E r \in inflight, resp \in ResponseInputs : SquiggleGetRespond(r, resp)
    \/ Tick

SpecCache == InitCache /\ [][NextCache]_vars

---------------------------------------------------------------------------
(* The responses of the prediction routes: GET /api/predict of the Squiggle *)
(* deployment (src/api/predict.js), GET /api/predict of the Champion Data   *)
(* deployment (src/unnamed/part_003) and GET /api/matches/:matchId/         *)
(* prediction (src/src/server.js)                                           *)

\* the decimal digits, Digits[i] standing for i - 1
Digits == <<"0", "1", "2", "3", "4", "5", "6", "7", "8", "9">>

IsDigit(c) == \E i \in DOMAIN Digits : Digits[i] = c

DigitValue(c) == (CHOOSE i \in DOMAIN Digits : Digits[i] = c) - 1

\* the value of the digits of text from position i on, up to the first
\* character that is no digit
RECURSIVE ParseDigits(_, _, _)
ParseDigits(text, i, acc) ==
    IF i > Len(text) \/ ~IsDigit(text[i]) THEN acc
    ELSE ParseDigits(text, i + 1, 10 * acc + DigitValue(text[i]))

\* a parameter of the request: absent, or the characters of its text
Absent == [present |-> FALSE]
Param(text) == [present |-> TRUE, text |-> text]

\* parseInt(param): NaN for undefined and for a text that does not start
\* with a digit, the value of the leading digits otherwise
parseInt(param) ==
    IF ~param.present \/ Len(param.text) = 0 \/ ~IsDigit(param.text[1]) THEN NaN
    ELSE Num(ParseDigits(param.text, 1, 0))

\* what a handler did: the statuses it sent, the number of calls it made to
\* the API client, whether it called engine.predictMatch
Outcome(status, calls, predicted) ==
    [sent   |-> <<status>>,
     calls  |-> calls,
     engine |-> IF predicted THEN <<"predictMatch">> ELSE <<>>]

\* the games the Squiggle handler searches: those of 2025 when the current
\* year has none and no year was requested
FixtureOf(req) ==
    IF req.games = "empty" /\ ~req.reqYear THEN req.fallback ELSE req.games

\* src/api/predict.js: req.games and req.fallback say what getGames and
\* getStandings give for the year and for 2025, req.history whether
\* buildTeamStats finds completed games of both teams, req.tips whether
\* getTips resolves
ApiPredictHandler(req) ==
    LET matchId == parseInt(req.matchId)
        loads   == IF req.games = "empty" /\ ~req.reqYear THEN 4 ELSE 2
    IN  IF ~Truthy(matchId) THEN Outcome(400, 0, FALSE)
        ELSE IF req.games = "rejects" THEN Outcome(500, 2, FALSE)
        ELSE IF FixtureOf(req) = "rejects" THEN Outcome(500, 4, FALSE)
        ELSE IF FixtureOf(req) # "with match" THEN Outcome(404, loads, FALSE)
        ELSE IF ~req.history THEN Outcome(422, loads, FALSE)
        ELSE IF ~req.tips THEN Outcome(500, loads + 5, TRUE)
        ELSE Outcome(200, loads + 6, TRUE)

\* src/unnamed/part_003: req.seasons says whether getSeasons resolves,
\* req.match whether getMatch, getMatchVenue and getFixture do
ChampionPredictHandler(req) ==
    LET matchId == parseInt(req.matchId)
    IN  IF ~Truthy(matchId) THEN Outcome(400, 0, FALSE)
        ELSE IF ~req.seasons THEN Outcome(500, 1, FALSE)
        ELSE IF ~req.match THEN Outcome(500, 4, FALSE)
        ELSE IF ~req.history THEN Outcome(422, 4, FALSE)
        ELSE Outcome(200, 4, TRUE)

\* src/src/server.js: req.seasonEnv says whether AFL_SEASON_ID is set; what
\* the handler throws reaches the error handler through asyncHandler
ServerPredictionHandler(req) ==
    LET seasonCalls == IF req.seasonEnv THEN 0 ELSE 1
    IN  IF ~req.seasonEnv /\ ~req.seasons THEN Outcome(500, 1, FALSE)
        ELSE IF ~req.match THEN Outcome(500, seasonCalls + 1, FALSE)
        ELSE IF ~req.history THEN Outcome(422, seasonCalls + 3, FALSE)
        ELSE Outcome(200, seasonCalls + 3, TRUE)

\* the texts of a matchId parameter
MatchIdTexts == {<<"x">>, <<"0">>, <<"7">>, <<"7", "x">>}

\* what getGames and getStandings give for a year
GamesInputs == {"rejects", "empty", "other matches", "with match"}

RequestInputs ==
    {[route |-> "api/predict", matchId |-> m, reqYear |-> y, games |-> g,
      fallback |-> f, history |-> h, tips |-> t] :
        m \in {Absent} \cup {Param(x) : x \in MatchIdTexts}, y \in BOOLEAN,
        g \in GamesInputs, f \in GamesInputs, h \in BOOLEAN, t \in BOOLEAN}
    \cup
    {[route |-> "champion/predict", matchId |-> m, seasons |-> s, match |-> d,
      history |-> h] :
        m \in {Absent} \cup {Param(x) : x \in MatchIdTexts},
        s \in BOOLEAN, d \in BOOLEAN, h \in BOOLEAN}
    \cup
    {[route |-> "server/prediction", matchId |-> m, seasonEnv |-> e,
      seasons |-> s, match |-> d, history |-> h] :
        m \in {Param(x) : x \in MatchIdTexts},
        e \in BOOLEAN, s \in BOOLEAN, d \in BOOLEAN, h \in BOOLEAN}

InitRoute ==
    /\ pc = "ready"
    /\ engine = "none"
    /\ request \in RequestInputs
    /\ response = <<>>
    /\ completedByYear = <<>>
    /\ allMatches = <<>>
    /\ h2hStats = <<>>
    /\ homeTeam = NoTeam
    /\ awayTeam = NoTeam
    /\ prediction = NoPrediction
    /\ form = <<>>
    /\ formScore = NaN
    /\ player = NoTeam
    /\ opponent = NoTeam
    /\ statCode = "NONE"
    /\ propPrediction = NoPrediction
    /\ NoScorer
    /\ NoHandler
    /\ NoCache

\* the handler of the route ran and left what it did
Respond(route, outcome) ==
    /\ pc = "ready"
    /\ request.route = route
    /\ response' = outcome.sent
    /\ upstream' = outcome.calls
    /\ engineCalls' = outcome.engine
    /\ engine' = route
    /\ pc' = "done"
    /\ UNCHANGED <<form, formScore, homeTeam, awayTeam, prediction, player,
                   opponent, statCode, propPrediction, scorerVars, tips,
                   matchStats, propPredictions, playerProps, completedByYear,
                   allMatches, h2hStats, request, cache, now, inflight, settled>>

ApiPredictRoute == Respond("api/predict", ApiPredictHandler(request))

ChampionPredictRoute == Respond("champion/predict", ChampionPredictHandler(request))

ServerPredictionRoute == Respond("server/prediction", ServerPredictionHandler(request))

NextRoute == ApiPredictRoute \/ ChampionPredictRoute \/ ServerPredictionRoute

SpecRoute == InitRoute /\ [][NextRoute]_vars

---------------------------------------------------------------------------
(* The head to head of the Champion Data prediction routes: step 3 of GET   *)
(* /api/matches/:matchId/prediction (src/src/server.js) and of GET          *)
(* /api/predict (src/unnamed/part_003)                                      *)

\* buildTeamStats returns null for a squad without a completed match
HasCompletedMatch(matches, squadId) ==
    \E i \in DOMAIN matches :
        /\ matches[i].home = squadId \/ matches[i].away = squadId
        /\ matches[i].typeName = "Completed"

\* the filter of h2hMatches
IsCompletedMeeting(m, homeId, awayId) ==
    /\ homeId \in {m.home, m.away}
    /\ awayId \in {m.home, m.away}
    /\ m.typeName = "Completed"

\* the filter of homeStats.h2hWins
HomeTeamWon(m, homeId) ==
    IF m.home = homeId THEN m.homePoints > m.awayPoints
    ELSE m.awayPoints > m.homePoints

\* the four figures written to homeStats and awayStats
ChampionH2HStats(matches, homeId, awayId) ==
    LET IsH2H(m)   == IsCompletedMeeting(m, homeId, awayId)
        IsWin(m)   == HomeTeamWon(m, homeId)
        h2hMatches == FilterSeq(matches, IsH2H, 1)
        homeWins   == Len(FilterSeq(h2hMatches, IsWin, 1))
    IN  [home |-> [h2hWins |-> homeWins, h2hPlayed |-> Len(h2hMatches)],
         away |-> [h2hWins   |-> Len(h2hMatches) - homeWins,
                   h2hPlayed |-> Len(h2hMatches)]]

\* most matches of the flattened fixture
MaxFixture == 3

\* a match of the fixture: a win of either team in a meeting at either
\* ground, a drawn meeting, a meeting still to play, a win of each team over
\* a third one
MatchInputs ==
    {[home |-> "Home", away |-> "Away", homePoints |-> 100, awayPoints |-> 80,
      typeName |-> "Completed"],
     [home |-> "Away", away |-> "Home", homePoints |-> 90, awayPoints |-> 70,
      typeName |-> "Completed"],
     [home |-> "Home", away |-> "Away", homePoints |-> 75, awayPoints |-> 75,
      typeName |-> "Completed"],
     [home |-> "Away", away |-> "Home", homePoints |-> 0, awayPoints |-> 0,
      typeName |-> "Scheduled"],
     [home |-> "Home", away |-> "Third", homePoints |-> 85, awayPoints |-> 60,
      typeName |-> "Completed"],
     [home |-> "Third", away |-> "Away", homePoints |-> 60, awayPoints |-> 85,
      typeName |-> "Completed"]}

InitChampionH2H ==
    /\ pc = "ready"
    /\ engine = "none"
    /\ allMatches \in UNION {[1..k -> MatchInputs] : k \in 0..MaxFixture}
    /\ completedByYear = <<>>
    /\ h2hStats = <<>>
    /\ request = <<>>
    /\ response = <<>>
    /\ form = <<>>
    /\ formScore = NaN
    /\ homeTeam = NoTeam
    /\ awayTeam = NoTeam
    /\ prediction = NoPrediction
    /\ player = NoTeam
    /\ opponent = NoTeam
    /\ statCode = "NONE"
    /\ propPrediction = NoPrediction
    /\ NoScorer
    /\ NoHandler
    /\ NoCache

\* step 3 of a route for match.home.id = "Home" and match.away.id = "Away";
\* the route reaches it when buildTeamStats returned stats for both teams
HeadToHeadStep(route) ==
    /\ pc = "ready"
    /\ HasCompletedMatch(allMatches, "Home")
    /\ HasCompletedMatch(allMatches, "Away")
    /\ h2hStats' = ChampionH2HStats(allMatches, "Home", "Away")
    /\ engine' = route
    /\ pc' = "done"
    /\ UNCHANGED <<form, formScore, homeTeam, awayTeam, prediction, player,
                   opponent, statCode, propPrediction, scorerVars, handlerVars,
                   completedByYear, allMatches, request, response, cacheVars>>

ServerPredictionHeadToHead == HeadToHeadStep("server/prediction h2h")

ChampionPredictHeadToHead == HeadToHeadStep("champion/predict h2h")

NextChampionH2H == ServerPredictionHeadToHead \/ ChampionPredictHeadToHead

SpecChampionH2H == InitChampionH2H /\ [][NextChampionH2H]_vars

---------------------------------------------------------------------------
(* Properties of predictMatch *)

MatchDone == pc = "done" /\ engine \in {"v1", "v2"}

TeamFields == {"code", "name", "form", "h2hWins", "h2hPlayed", "venueWins",
               "venuePlayed", "avgScore", "avgConceded", "avgClearances",
               "scoringMargin", "travellingInterstate"}

\* a team record that satisfies the data model
ValidTeam(t) ==
    /\ TeamFields \subseteq DOMAIN t
    /\ Len(t.form) <= 10
    /\ Le(Num(0), t.h2hWins) /\ Le(t.h2hWins, t.h2hPlayed)
    /\ Le(Num(0), t.venueWins) /\ Le(t.venueWins, t.venuePlayed)
    /\ Le(Num(0), t.avgScore) /\ Le(Num(0), t.avgConceded)
    /\ Le(Num(0), t.avgClearances)
    /\ t.scoringMargin = Sub(t.avgScore, t.avgConceded)

ValidInputs == ValidTeam(homeTeam) /\ ValidTeam(awayTeam)

\* C1: for valid team records, in both engines, home.winProbability +
\* away.winProbability is exactly 100 at one-decimal precision.
C1_ProbabilitiesSumTo100 ==
    (MatchDone /\ ValidInputs) =>
        Add(prediction.home.winProbability, prediction.away.winProbability) = Num(100)

\* C2: in both engines both predicted scores are at least 40.
C2_PredictedScoreFloor ==
    (MatchDone /\ ValidInputs) =>
        /\ Ge(prediction.home.predictedScore, Num(40))
        /\ Ge(prediction.away.predictedScore, Num(40))

\* C3: in every keyFactors row the advantage is the home code when
\* homeEdge >= awayEdge (ties go to the home team) and the away code
\* otherwise.
C3_AdvantageTiesToHome ==
    (MatchDone /\ ValidInputs) =>
        \A i \in DOMAIN prediction.keyFactors :
            LET row == prediction.keyFactors[i]
            IN  row.advantage = IF Ge(row.homeEdge, row.awayEdge)
                                THEN homeTeam.code ELSE awayTeam.code

\* the venue edge the claim describes, from integers: 1/2 with no games, the
\* raw rate from 10 games on, and (2*wins + 10 - played)/20 in between, which
\* is the raw rate moved towards 1/2 by the factor played/10
RegressedVenueRate(wins, played) ==
    IF played = 0 THEN Q(1, 2)
    ELSE IF played >= 10 THEN Q(wins, played)
    ELSE Q(2 * wins + 10 - played, 20)

\* C4: in both engines the venue row holds, for each side, the venue rate
\* regressed towards 0.5 (0.5 with no venue games, the raw rate from 10 games
\* on, at most played/20 away from 0.5 below 10 games).
C4_VenueEdgeRegressed ==
    (MatchDone /\ ValidInputs) =>
        LET row == prediction.keyFactors[4]
            ok(e, t) ==
                /\ e = RegressedVenueRate(t.venueWins[1], t.venuePlayed[1])
                /\ Lt(t.venuePlayed, Num(10)) =>
                     /\ Le(Sub(e, Q(1, 2)), Div(t.venuePlayed, Num(20)))
                     /\ Le(Sub(Q(1, 2), e), Div(t.venuePlayed, Num(20)))
        IN  ok(row.homeEdge, homeTeam) /\ ok(row.awayEdge, awayTeam)

\* C5: in both engines the travel row gives a side 0.35-0.42 when it travels
\* and the other does not, 0.58-0.65 when it stays and the other travels, and
\* exactly 0.5 to both when both or neither travel.
C5_TravelBands ==
    (MatchDone /\ ValidInputs) =>
        LET row == prediction.keyFactors[6]
            ok(e, me, other) ==
                IF me /\ ~other THEN Le(Q(35, 100), e) /\ Le(e, Q(42, 100))
                ELSE IF ~me /\ other THEN Le(Q(58, 100), e) /\ Le(e, Q(65, 100))
                ELSE e = Q(1, 2)
        IN  /\ ok(row.homeEdge, homeTeam.travellingInterstate,
                  awayTeam.travellingInterstate)
            /\ ok(row.awayEdge, awayTeam.travellingInterstate,
                  homeTeam.travellingInterstate)

InUnit(e) == Le(Num(0), e) /\ Le(e, Num(1))

\* C6: for inputs that satisfy the data model, every homeEdge and awayEdge of
\* keyFactors lies in [0, 1], in both engines.
C6_EdgesInUnitInterval ==
    (MatchDone /\ ValidInputs) =>
        \A i \in DOMAIN prediction.keyFactors :
            /\ InUnit(prediction.keyFactors[i].homeEdge)
            /\ InUnit(prediction.keyFactors[i].awayEdge)

\* C6 witness: the Champion Data engine returned for valid inputs whose
\* scoring margin lies below the normalised range, so that the clamp put the
\* home edge on 0 and the away edge on 1.
C6_Witness ==
    /\ MatchDone /\ ValidInputs /\ engine = "v1"
    /\ prediction.keyFactors[3].homeEdge = Num(0)
    /\ prediction.keyFactors[3].awayEdge = Num(1)
    /\ Lt(Sub(homeTeam.avgScore, homeTeam.avgConceded), Num(-40))

\* C9: with empty samples or missing metrics both engines still return
\* numbers (not NaN) for the win probabilities and the predicted scores.
C9_NoNaNOnMissingData ==
    MatchDone =>
        /\ ~IsNaN(prediction.home.winProbability)
        /\ ~IsNaN(prediction.away.winProbability)
        /\ ~IsNaN(prediction.home.predictedScore)
        /\ ~IsNaN(prediction.away.predictedScore)

\* homeTotal + awayTotal of the call that returned prediction
CompositeTotal ==
    IF engine = "v1"
    THEN Add(WeightedSumV1(prediction.scores, "home", 1, Num(0)),
             WeightedSumV1(prediction.scores, "away", 1, Num(0)))
    ELSE Add(WeightedSumV2(prediction.keyFactors, "homeEdge", 1, Num(0)),
             WeightedSumV2(prediction.keyFactors, "awayEdge", 1, Num(0)))

\* C12: for every input the composite homeTotal + awayTotal is not zero, and
\* both win probabilities are defined numbers in [0, 100].
C12_ProbabilitiesDefined ==
    MatchDone =>
        /\ CompositeTotal # Num(0)
        /\ Le(Num(0), prediction.home.winProbability)
        /\ Le(prediction.home.winProbability, Num(100))
        /\ Le(Num(0), prediction.away.winProbability)
        /\ Le(prediction.away.winProbability, Num(100))

\* the canonical factor order in the names of each engine
FactorOrder ==
    [v1 |-> <<"Recent Form (Last 5)", "Head to Head Record", "Scoring Margin",
              "Venue Record", "Clearance Differential", "Interstate Travel">>,
     v2 |-> <<"Recent Form", "Head to Head", "Avg Score Diff",
              "Venue Record", "Clearance Diff", "Interstate Travel">>]

FactorWeights == <<Q(30, 100), Q(20, 100), Q(20, 100), Q(15, 100), Q(10, 100), Q(5, 100)>>

\* C18: keyFactors always holds exactly six rows in the order recent form,
\* head-to-head, scoring margin, venue record, clearance differential,
\* interstate travel, with the weights 0.30, 0.20, 0.20, 0.15, 0.10, 0.05,
\* whatever the inputs are.
C18_KeyFactorsOrderAndWeights ==
    MatchDone =>
        /\ Len(prediction.keyFactors) = 6
        /\ \A i \in 1..6 :
              /\ prediction.keyFactors[i].name = FactorOrder[engine][i]
              /\ prediction.keyFactors[i].weight = FactorWeights[i]

\* C18 witness: the Champion Data engine returned six rows for a home team
\* without head-to-head figures.
C18_Witness ==
    /\ MatchDone /\ engine = "v1"
    /\ ~Has(homeTeam, "h2hPlayed")
    /\ Len(prediction.keyFactors) = 6
    /\ prediction.keyFactors[3].name = "Scoring Margin"

\* wins / played, 0.5 for an empty sample
RawRate(t, wins, played) ==
    IF Gt(NumOf(t, played), Num(0)) THEN Div(NumOf(t, wins), NumOf(t, played))
    ELSE Dec1(5)

\* a team's raw value on each of the six factors; travel is 1 for a team
\* that does not travel and 0 for one that does
RawValues(t) ==
    << IF engine = "v1" THEN FormScoreOfV1(t) ELSE FormScoreOfV2(t),
       RawRate(t, "h2hWins", "h2hPlayed"),
       Sub(NumOf(t, "avgScore"), NumOf(t, "avgConceded")),
       RawRate(t, "venueWins", "venuePlayed"),
       NumOf(t, "avgClearances"),
       IF Travelling(t) THEN Num(0) ELSE Num(1) >>

\* the home team's raw value is at least the away team's on every factor
\* and greater on one
RawDominance ==
    /\ \A i \in 1..6 : Ge(RawValues(homeTeam)[i], RawValues(awayTeam)[i])
    /\ \E i \in 1..6 : Gt(RawValues(homeTeam)[i], RawValues(awayTeam)[i])

\* the same of the edges in the key factors of the returned prediction
EdgeDominance ==
    /\ \A i \in 1..6 :
          Ge(prediction.keyFactors[i].homeEdge, prediction.keyFactors[i].awayEdge)
    /\ \E i \in 1..6 :
          Gt(prediction.keyFactors[i].homeEdge, prediction.keyFactors[i].awayEdge)

HomeFavoured ==
    /\ Ge(prediction.home.winProbability, Num(50))
    /\ Le(prediction.away.winProbability, Num(50))
    /\ prediction.predictedWinner = homeTeam.code

\* C21 as stated: if the home team's raw value is at least the away team's
\* on each of the six factors and greater on one, predictMatch returns
\* home.winProbability >= 50 >= away.winProbability and the home team as
\* predicted winner.
C21_RawDominance ==
    (MatchDone /\ RawDominance) => HomeFavoured

\* C21 amended: the same of the six factor edges that the engine computes
\* from the raw values and returns in keyFactors.
C21_EdgeDominance ==
    (MatchDone /\ EdgeDominance) => HomeFavoured

\* C21 witness: a team with 9 wins in 10 games at the venue at home to a
\* team with 1 win in 1 game there, in the Champion Data engine: the away
\* team has the greater raw rate and the smaller edge.
C21_Witness ==
    /\ MatchDone /\ engine = "v1"
    /\ EdgeDominance
    /\ NumOf(homeTeam, "venueWins") = Num(9) /\ NumOf(homeTeam, "venuePlayed") = Num(10)
    /\ NumOf(awayTeam, "venueWins") = Num(1) /\ NumOf(awayTeam, "venuePlayed") = Num(1)
    /\ Gt(prediction.home.winProbability, Num(50))

\* C28: in every match prediction the predicted winner never has a strictly
\* lower predicted score than the other team: predictedWinner = home code
\* implies home.predictedScore >= away.predictedScore, and predictedWinner =
\* away code implies away.predictedScore >= home.predictedScore, so that
\* predictedMargin is a margin in the predicted winner's favour.
C28_WinnerHasHigherScore ==
    (MatchDone /\ ValidInputs) =>
        /\ prediction.predictedWinner = homeTeam.code =>
              Ge(prediction.home.predictedScore, prediction.away.predictedScore)
        /\ prediction.predictedWinner = awayTeam.code =>
              Ge(prediction.away.predictedScore, prediction.home.predictedScore)

---------------------------------------------------------------------------
(* Properties of predictPlayerStat *)

PlayerDone == pc = "done" /\ engine = "player"

\* the player's history for the requested stat is empty or absent
NoHistory ==
    \/ ~Has(player, "statHistory")
    \/ ~Has(player.statHistory, statCode)
    \/ player.statHistory[statCode] = <<>>

\* C7: predictPlayerStat returns null exactly when the history for the stat is
\* empty or absent; otherwise it returns a prediction record with a numeric
\* prediction and does not raise, with or without opponent defensive data.
C7_NullIffEmptyHistory ==
    PlayerDone =>
        /\ propPrediction.kind \in {"null", "prediction"}
        /\ (propPrediction.kind = "null") <=> NoHistory
        /\ propPrediction.kind = "prediction" =>
             /\ ~IsNaN(propPrediction.predicted)
             /\ propPrediction.statCode = statCode

\* C7 witness: a prediction made from a non-empty history for an opponent
\* without defensive data, as the callers pass it.
C7_Witness ==
    /\ PlayerDone
    /\ ~NoHistory
    /\ ~Has(opponent, "avgStatConceded")
    /\ propPrediction.kind = "prediction"

---------------------------------------------------------------------------
(* Properties of calcFormScore *)

FormDone == pc = "done" /\ engine \in {"v1", "v2"}

\* twice the share of its weight that a result contributes
Points(r) == IF r = "W" THEN 2 ELSE IF r = "D" THEN 1 ELSE 0

\* the recency weight of position i (1 = most recent) of a form of length n:
\* hundredths 35, 25, 20, 12, 8, then 5 in v1; n, n-1, ..., 1 in v2
SlotWeight(variant, n, i) ==
    IF variant = "v2" THEN n - i + 1
    ELSE IF i = 1 THEN 35 ELSE IF i = 2 THEN 25 ELSE IF i = 3 THEN 20
    ELSE IF i = 4 THEN 12 ELSE IF i = 5 THEN 8 ELSE 5

RECURSIVE SumSlots(_, _, _, _)
SumSlots(variant, f, i, counted) ==
    IF i > Len(f) THEN 0
    ELSE SlotWeight(variant, Len(f), i) * (IF counted THEN Points(f[i]) ELSE 2)
         + SumSlots(variant, f, i + 1, counted)

\* (weights with W counted fully, D half, L zero) / (weights)
ExpectedFormScore(variant, f) ==
    IF Len(f) = 0 THEN Q(1, 2)
    ELSE Q(SumSlots(variant, f, 1, TRUE), SumSlots(variant, f, 1, FALSE))

\* C10: in both variants the form score is the recency-weighted share of
\* wins (draws count half): 0.5 for the empty sequence, 1 for all wins, 0 for
\* all losses, and within [0, 1] for every sequence.
C10_FormScore ==
    FormDone =>
        /\ formScore = ExpectedFormScore(engine, form)
        /\ InUnit(formScore)
        /\ Len(form) = 0 => formScore = Q(1, 2)
        /\ (Len(form) > 0 /\ \A i \in DOMAIN form : form[i] = "W") => formScore = Num(1)
        /\ (Len(form) > 0 /\ \A i \in DOMAIN form : form[i] = "L") => formScore = Num(0)

\* C10 witness: a form longer than the five scheduled weights, holding a
\* draw, scored strictly between 0 and 1.
C10_Witness ==
    /\ FormDone
    /\ Len(form) > 5
    /\ \E i \in DOMAIN form : form[i] = "D"
    /\ Lt(Num(0), formScore) /\ Lt(formScore, Num(1))

---------------------------------------------------------------------------
(* Properties of the factor scorers and the confidence classifiers *)

ScorerDone(fn) == pc = "done" /\ engine = fn

\* C11: the head-to-head rate is wins / played when played > 0 and exactly
\* 0.5 when played = 0, whatever wins is, in calcH2HScore and in the inline
\* rate of the 2026 engine.
C11_HeadToHeadRate ==
    (ScorerDone("calcH2HScore") \/ ScorerDone("rateV2")) =>
        /\ args[2] = Num(0) => result[1] = Q(1, 2)
        /\ Gt(args[2], Num(0)) => Mul(result[1], args[2]) = args[1]

\* C11 witness: calcH2HScore answered 0.5 for no meetings and a non-zero
\* number of wins.
C11_Witness ==
    /\ ScorerDone("calcH2HScore")
    /\ args[2] = Num(0) /\ args[1] = Num(3)
    /\ result[1] = Q(1, 2)

\* the clamp bound of a margin-to-edge mapping
BoundOf(fn) ==
    IF fn = "mapMargin" THEN 60 ELSE IF fn = "normaliseStat" THEN 40 ELSE 15

\* C13: mapMargin (bound 60), normaliseStat (bounds -40..40) and
\* calcClearanceScore (bound 15) are non-decreasing in their input, exactly
\* 0 for every input <= -bound, exactly 1 for every input >= +bound, and
\* linear in between.
C13_MarginMappingMonotone ==
    \A fn \in {"mapMargin", "normaliseStat", "calcClearanceScore"} :
        ScorerDone(fn) =>
            LET b == Num(BoundOf(fn))
            IN  /\ Le(args[1], args[2]) => Le(result[1], result[2])
                /\ \A i \in 1..2 :
                      /\ Le(args[i], Neg(b)) => result[i] = Num(0)
                      /\ Ge(args[i], b) => result[i] = Num(1)
                      /\ (Lt(Neg(b), args[i]) /\ Lt(args[i], b)) =>
                            Mul(result[i], Mul(Num(2), b)) = Add(args[i], b)

\* C13 witness: mapMargin saturated at 0 below -60 for one input and was
\* strictly inside (0, 1) for a larger one.
C13_Witness ==
    /\ ScorerDone("mapMargin")
    /\ args = <<Num(-61), Num(30)>>
    /\ result = <<Num(0), Q(3, 4)>>

\* LOW < MEDIUM < HIGH
TierRank(label) ==
    IF label = "LOW CONF" THEN 1 ELSE IF label = "MED CONF" THEN 2 ELSE 3

\* the dominant-side probability max(p, whole - p)
Dominant(p, whole) == MathMax(p, Sub(whole, p))

\* C14: in each engine the confidence tier is non-decreasing in the
\* dominant-side probability max(p, 1 - p), and p and 1 - p get the same
\* tier (probabilities in [0, 1] for getConfidenceTier, percentages in
\* [0, 100] for the 2026 engine).
C14_ConfidenceTierMonotone ==
    \A fn \in {"getConfidenceTier", "confidenceV2"} :
        LET whole == IF fn = "getConfidenceTier" THEN Num(1) ELSE Num(100)
            valid(p) == Le(Num(0), p) /\ Le(p, whole)
        IN  (ScorerDone(fn) /\ valid(args[1]) /\ valid(args[2])) =>
                /\ Le(Dominant(args[1], whole), Dominant(args[2], whole)) =>
                      TierRank(result[1]) <= TierRank(result[2])
                /\ args[2] = Sub(whole, args[1]) => result[1] = result[2]

\* C14 witness: getConfidenceTier put 0.28 and 0.72 in the same HIGH tier.
C14_Witness ==
    /\ ScorerDone("getConfidenceTier")
    /\ args = <<Q(28, 100), Q(72, 100)>>
    /\ result = <<"HIGH CONF", "HIGH CONF">>

---------------------------------------------------------------------------
(* More properties of predictPlayerStat *)

\* the sum of the integers of w from position i on, squared first if sq
RECURSIVE SumInts(_, _, _)
SumInts(w, i, sq) ==
    IF i > Len(w) THEN 0
    ELSE (IF sq THEN w[i][1] * w[i][1] ELSE w[i][1]) + SumInts(w, i + 1, sq)

\* the tier of a window of integers by its population variance v:
\* n^2 * v = n * sum(x^2) - sum(x)^2, compared with 16 and 64
TierOfWindow(w) ==
    LET n  == Len(w)
        nv == n * SumInts(w, 1, TRUE) - SumInts(w, 1, FALSE) * SumInts(w, 1, FALSE)
    IN  IF nv < 16 * n * n THEN "HIGH" ELSE IF nv < 64 * n * n THEN "MED" ELSE "LOW"

\* C15: the confidence of a player prediction is the tier of the population
\* standard deviation s of the (at most 5) most recent observations: HIGH
\* when s < 4, MEDIUM when 4 <= s < 8, LOW when s >= 8.
C15_PlayerConfidenceTier ==
    (PlayerDone /\ ~NoHistory) =>
        /\ propPrediction.last5 = Slice(player.statHistory[statCode], 5)
        /\ propPrediction.confidence = TierOfWindow(propPrediction.last5)

\* C15 witness: the window [0, 20, 0, 20, 0] got LOW.
C15_Witness ==
    /\ PlayerDone /\ ~NoHistory
    /\ propPrediction.last5 = <<Num(0), Num(20), Num(0), Num(20), Num(0)>>
    /\ propPrediction.confidence = "LOW"

\* the trend of a history h of integers against its unweighted mean:
\* h[1] > sum / n exactly when n * h[1] > sum
TrendOfIntegers(h) ==
    LET lead == Len(h) * h[1][1]
        sum  == SumInts(h, 1, FALSE)
    IN  IF lead > sum THEN "up" ELSE IF lead < sum THEN "down" ELSE "flat"

\* the trend that the record itself shows: last5[1], the most recent
\* observation, against the seasonAvg it reports
TrendShown(record) ==
    IF Gt(record.last5[1], record.seasonAvg) THEN "up"
    ELSE IF Lt(record.last5[1], record.seasonAvg) THEN "down" ELSE "flat"

---------------------------------------------------------------------------
(* Properties of GET /api/predict *)

PredictDone == pc = "done" /\ engine = "api/predict"

\* C17: /api/predict returns home = round1(0.70 * e + 0.30 * h) whenever an
\* aggregate tip with home confidence h (any h in 0..100) exists for the
\* fixture, e being the engine's home percentage; it returns e unchanged
\* when no tip exists; in both cases away = 100 - home and predictedWinner
\* is the home code iff home >= 50.
C17_SquiggleBlend ==
    PredictDone =>
        LET e    == predictMatchV2(homeTeam, awayTeam, Venue).home.winProbability
            tip  == getAggregateTip(tips, homeTeam.name, awayTeam.name)
            home == prediction.prediction.home.winProbability
            away == prediction.prediction.away.winProbability
        IN  /\ (tip # Null /\ Has(tip, "hconfidence")) =>
                  home = ToFixed1(Add(Mul(Dec2(70), e), Mul(Dec2(30), tip.hconfidence)))
            /\ tip = Null => home = e
            /\ away = Sub(Num(100), home)
            /\ prediction.prediction.predictedWinner =
                  IF Ge(home, Num(50)) THEN homeTeam.code ELSE awayTeam.code

\* C29: in the response of the Squiggle-backed /api/predict the confidence
\* tier agrees with the returned win probabilities: it is the tier of
\* max(home.winProbability, away.winProbability) of the final (blended)
\* values by the engine's thresholds (>= 70 high, >= 58 medium, else low).
C29_ConfidenceOfBlend ==
    PredictDone =>
        LET home == prediction.prediction.home.winProbability
            away == prediction.prediction.away.winProbability
            top  == MathMax(home, away)
        IN  prediction.prediction.confidence.level =
                IF Ge(top, Num(70)) THEN "high"
                ELSE IF Ge(top, Num(58)) THEN "medium" ELSE "low"

---------------------------------------------------------------------------
(* Properties of the player-props endpoints *)

PropsDone == pc = "done" /\ engine \in {"server/players", "api/players"}

\* the number of observations of player p for the stat code
Observations(p, code) == Len(FilterNotNull(matchStats[p][code], 1))

\* C19: the player-props endpoints call the engine only for (player, stat)
\* pairs with at least 3 observations: every prop of the response has a last5
\* window of length >= 3, and a pair with 0-2 observations has no entry.
C19_MinimumThreeObservations ==
    PropsDone =>
        /\ \A i \in DOMAIN engineCalls : Len(engineCalls[i]) >= 3
        /\ \A code \in DOMAIN playerProps : \A i \in DOMAIN playerProps[code] :
              Len(playerProps[code][i].last5) >= 3
        /\ \A p \in DOMAIN AllPlayers : \A c \in DOMAIN statCodes :
              Observations(p, statCodes[c]) <= 2 =>
                  ~\E i \in DOMAIN propPredictions :
                      /\ propPredictions[i].code = AllPlayers[p].code
                      /\ propPredictions[i].statCode = statCodes[c]

\* C19 witness: a response with a prop for one player and none for the
\* other, who has exactly two observations of the stat.
C19_Witness ==
    /\ PropsDone
    /\ Observations(1, "DISPOSAL") = 3
    /\ Observations(2, "DISPOSAL") = 2
    /\ "DISPOSAL" \in DOMAIN playerProps
    /\ Len(playerProps["DISPOSAL"]) = 1
    /\ playerProps["DISPOSAL"][1].squad = "HOM"

\* the player's value from the latest completed match in which the stat
\* exists; values is in fixture order, the latest match last
LatestObservation(values) ==
    FilterNotNull(values, 1)[Len(FilterNotNull(values, 1))]

\* C22: the history that the player-props endpoints pass to predictPlayerStat
\* is most-recent-first: its element 0 (the first of last5) is the player's
\* value from the latest completed match in which the stat exists, and it
\* has at most 10 elements.
C22_HistoryMostRecentFirst ==
    PropsDone =>
        /\ \A i \in DOMAIN engineCalls : Len(engineCalls[i]) <= 10
        /\ \A i \in DOMAIN propPredictions : \A p \in DOMAIN AllPlayers :
              AllPlayers[p].code = propPredictions[i].code =>
                  propPredictions[i].last5[1] =
                      LatestObservation(matchStats[p][propPredictions[i].statCode])

---------------------------------------------------------------------------
(* Properties of the head to head of /api/predict *)

H2HDone == pc = "done" /\ engine = "api/predict h2h"

\* the completed meetings of the two teams in the four years
RECURSIVE MeetingsFrom(_)
MeetingsFrom(i) ==
    IF i > 4 THEN <<>>
    ELSE LET IsH2H(g) == IsMeeting(g, "Home", "Away")
         IN  FilterSeq(completedByYear[i].games, IsH2H, 1) \o MeetingsFrom(i + 1)

\* C23: the h2hWins / h2hPlayed that /api/predict gives the engine count the
\* most recent (up to 10) completed meetings of the two teams in the
\* requested year and the three before it: h2hPlayed is min(10, number of
\* meetings) and each team's h2hWins its number of wins among them.
C23_HeadToHeadCountsMeetings ==
    H2HDone =>
        LET meetings == MeetingsFrom(1)
            HomeWon(g) == IsWinOf(g, "Home")
            AwayWon(g) == IsWinOf(g, "Away")
        IN  Len(meetings) <= 10 =>
              /\ h2hStats.home.h2hPlayed = Len(meetings)
              /\ h2hStats.away.h2hPlayed = Len(meetings)
              /\ h2hStats.home.h2hWins = Len(FilterSeq(meetings, HomeWon, 1))
              /\ h2hStats.away.h2hWins = Len(FilterSeq(meetings, AwayWon, 1))

---------------------------------------------------------------------------
(* Properties of the API clients *)

ClientRunning == engine \in {"apiGet", "squiggleGet"}

C25_CacheWrittenOnlyOnSuccess ==
    [][ClientRunning =>
        /\ (settled' # settled /\ settled'.how = "upstream") =>
              settled'.data.status = 200
        /\ (settled' # settled /\ settled'.how = "rejected") =>
              \A u \in Urls : cache'[u] = cache[u] \/ ~cache'[u].present
        /\ \A u \in Urls : (cache'[u].present /\ cache'[u] # cache[u]) =>
              /\ settled'.how = "upstream"
              /\ settled'.url = u
              /\ settled'.data = cache'[u].data
              /\ settled'.data.status = 200
              /\ settled'.ttl > 0]_vars

\* C26: calls for one URL that overlap while the cache is cold result in at
\* most one upstream request for that URL: no two requests for the same URL
\* are on the wire together.
C26_OneUpstreamRequestPerUrl ==
    ClientRunning =>
        \A r1 \in inflight : \A r2 \in inflight : r1.url = r2.url => r1 = r2

---------------------------------------------------------------------------
(* Properties of the responses of the prediction routes *)

RouteDone ==
    pc = "done" /\ engine \in {"api/predict", "champion/predict", "server/prediction"}

\* matchId is missing, non-numeric or 0
InvalidMatchId(param) ==
    \/ ~param.present
    \/ Len(param.text) = 0
    \/ \E i \in DOMAIN param.text : ~IsDigit(param.text[i])
    \/ ParseDigits(param.text, 1, 0) = 0

\* an upstream call made to load the fixture rejects
LoadRejects(req) ==
    IF req.route = "api/predict" THEN FixtureOf(req) = "rejects"
    ELSE IF req.route = "champion/predict" THEN ~req.seasons \/ ~req.match
    ELSE (~req.seasonEnv /\ ~req.seasons) \/ ~req.match

\* the status of the first failing check in the order 400, 404, 422, 500;
\* a fixture that could not be loaded leaves only 500
ExpectedStatus(req) ==
    IF InvalidMatchId(req.matchId) THEN 400
    ELSE IF LoadRejects(req) THEN 500
    ELSE IF req.route = "api/predict" /\ FixtureOf(req) # "with match" THEN 404
    ELSE IF ~req.history THEN 422
    ELSE IF req.route = "api/predict" /\ ~req.tips THEN 500
    ELSE 200

\* C27: every request to a predict endpoint ends with exactly one response,
\* chosen by the first failing check in the order 400 (matchId missing,
\* non-numeric or 0, before any upstream call), 404 (match not in the
\* fixture, Squiggle variant), 422 (a team without completed matches), 500
\* (an upstream call rejects), otherwise 200; the prediction engine is
\* invoked only on the 200 path.
C27_ResponseOrder ==
    RouteDone =>
        /\ Len(response) = 1
        /\ response[1] = ExpectedStatus(request)
        /\ response[1] = 400 => upstream = 0
        /\ engineCalls # <<>> => response[1] = 200

---------------------------------------------------------------------------
(* Properties of the head to head of the Champion Data routes *)

ChampionH2HDone ==
    pc = "done" /\ engine \in {"server/prediction h2h", "champion/predict h2h"}

\* the completed meetings of the fixture in which the squad scored strictly
\* more points than the opponent
StrictWins(squadId, opponentId) ==
    {i \in DOMAIN allMatches :
        /\ allMatches[i].typeName = "Completed"
        /\ \/ /\ allMatches[i].home = squadId /\ allMatches[i].away = opponentId
              /\ allMatches[i].homePoints > allMatches[i].awayPoints
           \/ /\ allMatches[i].away = squadId /\ allMatches[i].home = opponentId
              /\ allMatches[i].awayPoints > allMatches[i].homePoints}

\* C30: in the Champion Data prediction routes each team's h2hWins is the
\* number of completed meetings in which that team scored strictly more
\* points than the opponent: a drawn meeting counts as a win for neither
\* team, and h2hWins <= h2hPlayed for both teams.
C30_HeadToHeadWinsAreStrict ==
    ChampionH2HDone =>
        /\ h2hStats.home.h2hWins = Cardinality(StrictWins("Home", "Away"))
        /\ h2hStats.away.h2hWins = Cardinality(StrictWins("Away", "Home"))
        /\ h2hStats.home.h2hWins <= h2hStats.home.h2hPlayed
        /\ h2hStats.away.h2hWins <= h2hStats.away.h2hPlayed

====
